---- MODULE Spec2Model ----
(***************************************************************************)
(* Model of the flow engine of evergreen_utility_ai: the FlowGraph with    *)
(* its two node arenas, label maps, dependency graph and cached            *)
(* topological order (src/src/flow.rs), the registration of config trees,  *)
(* initialize / run / run_readonly, and the Flows registry with scoped     *)
(* access.                                                                 *)
(*                                                                         *)
(* Scores are fixed-point: the integer k stands for the f32 k / Score_MAX. *)
(***************************************************************************)
EXTENDS Integers, Sequences, FiniteSets, TLC

\* Largest number of nodes one flow may hold in the label/lifecycle specification.
MaxNodes == 3

\* Largest number of nodes one flow may hold in the ordering specification.
MaxOrderNodes == 5

\* Score::MIN and Score::MAX in fixed-point units.
Score_MIN == 0
Score_MAX == 4

\* Scores the constant evaluators of the enumerated configs return.
Values == {1, 2}

\* Score labels configs may carry; NoLabel is Option::None.
ScoreLabels == {"L1", "L2"}
NoLabel == "None"

\* Option::None for a parent node id.
NoParent == <<"None", 0>>

----------------------------------------------------------------------------
(* Sequence helpers *)

Last(s) == s[Len(s)]

Front(s) == SubSeq(s, 1, Len(s) - 1)

RECURSIVE Reverse(_)
Reverse(s) == IF s = <<>> THEN <<>> ELSE Reverse(Tail(s)) \o <<Head(s)>>

Range(s) == {s[i] : i \in 1..Len(s)}

\* f with key k bound to v (insert into a HashMap).
MapInsert(f, k, v) == [x \in DOMAIN f \cup {k} |-> IF x = k THEN v ELSE f[x]]

\* Faulty variant: the entry stays.
MapRemove_nothing(f, k) == f

\* f without key k (remove from a HashMap).
MapRemove(f, k) == [x \in DOMAIN f \ {k} |-> f[x]]

EmptyMap == [x \in {} |-> 0]

----------------------------------------------------------------------------
(* f32: fixed-point numbers in units of 1 / Score_MAX between -F32_MAX and    *)
(* F32_MAX, the two infinities and NaN.  A finite result is rounded towards   *)
(* zero to the next unit and overflows to an infinity beyond F32_MAX.         *)

\* Largest finite f32, in units.
F32_MAX == 64

INFINITY == F32_MAX + 1
NEG_INFINITY == 0 - INFINITY
NAN == F32_MAX + 2

F32 == (0 - F32_MAX)..F32_MAX \cup {INFINITY, NEG_INFINITY, NAN}

is_nan(x) == x = NAN
is_infinite(x) == x \in {INFINITY, NEG_INFINITY}

\* -1, 0 or 1.
signum(x) == IF x > 0 THEN 1 ELSE IF x < 0 THEN 0 - 1 ELSE 0

\* The quotient n / d rounded towards zero (d # 0).
Quotient(n, d) ==
    LET an == IF n < 0 THEN 0 - n ELSE n
        ad == IF d < 0 THEN 0 - d ELSE d
    IN  signum(n) * signum(d) * (an \div ad)

\* A finite result, overflowing to an infinity.
f32_finite(v) ==
    IF v > F32_MAX THEN INFINITY
    ELSE IF v < 0 - F32_MAX THEN NEG_INFINITY
    ELSE v

f32_neg(x) == IF is_nan(x) THEN NAN ELSE 0 - x

f32_add(x, y) ==
    IF is_nan(x) \/ is_nan(y) THEN NAN
    ELSE IF is_infinite(x) THEN (IF y = f32_neg(x) THEN NAN ELSE x)
    ELSE IF is_infinite(y) THEN y
    ELSE f32_finite(x + y)

f32_mul(x, y) ==
    IF is_nan(x) \/ is_nan(y) THEN NAN
    ELSE IF is_infinite(x) \/ is_infinite(y)
         THEN (IF x = 0 \/ y = 0 THEN NAN ELSE signum(x) * signum(y) * INFINITY)
    ELSE f32_finite(Quotient(x * y, Score_MAX))

f32_div(x, y) ==
    IF is_nan(x) \/ is_nan(y) THEN NAN
    ELSE IF is_infinite(x)
         THEN (IF is_infinite(y) THEN NAN
               ELSE IF y < 0 THEN f32_neg(x) ELSE x)
    ELSE IF is_infinite(y) THEN 0
    ELSE IF y = 0 THEN (IF x = 0 THEN NAN ELSE signum(x) * INFINITY)
    ELSE f32_finite(Quotient(x * Score_MAX, y))

----------------------------------------------------------------------------
(* Score *)

\* Faulty variant: the value is stored as it comes.
Score_new_unclamped(value) == value

\* Score::new: panics on NaN (the result NAN stands for the panic: no Score
\* is made), otherwise clamps into [MIN, MAX].
Score_new(value) ==
    IF is_nan(value) THEN NAN
    ELSE IF value < Score_MIN THEN Score_MIN
    ELSE IF value > Score_MAX THEN Score_MAX
    ELSE value

\* Score::set: the same check and clamp, stored in place.
Score_set(self, value) ==
    IF is_nan(value) THEN NAN
    ELSE IF value < Score_MIN THEN Score_MIN
    ELSE IF value > Score_MAX THEN Score_MAX
    ELSE value

\* impl Add for Score and impl Add<f32> for Score.
Score_add(a, b) == Score_new(f32_add(a, b))

\* impl Sub for Score and impl Sub<f32> for Score.
Score_sub(a, b) == Score_new(f32_add(a, f32_neg(b)))

\* impl Mul for Score and impl Mul<f32> for Score.
Score_mul(a, b) == Score_new(f32_mul(a, b))

\* impl Div for Score and impl Div<f32> for Score.
Score_div(a, b) ==
    IF b = 0 THEN Score_MIN ELSE Score_new(f32_div(a, b))

\* impl Sum for Score: fold from Score::MIN with the clamping add.
RECURSIVE Score_sum(_)
Score_sum(scores) ==
    IF scores = <<>> THEN Score_MIN
    ELSE Score_add(Score_sum(Front(scores)), Last(scores))

\* impl Product for Score: fold from Score::MAX with the clamping mul.
RECURSIVE Score_product(_)
Score_product(scores) ==
    IF scores = <<>> THEN Score_MAX
    ELSE Score_mul(Score_product(Front(scores)), Last(scores))

\* impl Ord for Score: the least of some scores.
Score_min(scores) == CHOOSE m \in Range(scores) : \A x \in Range(scores) : m <= x

\* scores.sort_unstable(): the same scores in ascending order.
RECURSIVE sort_unstable(_)
sort_unstable(scores) ==
    IF scores = <<>> THEN <<>>
    ELSE LET m == Score_min(scores)
             i == CHOOSE j \in 1..Len(scores) : scores[j] = m
         IN  <<m>> \o sort_unstable(SubSeq(scores, 1, i - 1)
                                       \o SubSeq(scores, i + 1, Len(scores)))

\* b to the power e, for a natural e.
RECURSIVE Pow(_, _)
Pow(b, e) == IF e = 0 THEN 1 ELSE b * Pow(b, e - 1)

\* x.powf(1.0 / n) for 0 <= x and 1 <= n: the n-th root, rounded towards zero.
f32_root(x, n) ==
    IF is_nan(x) \/ x < 0 THEN NAN
    ELSE IF is_infinite(x) THEN INFINITY
    ELSE CHOOSE r \in 0..F32_MAX :
            /\ Pow(r, n) <= x * Pow(Score_MAX, n - 1)
            /\ Pow(r + 1, n) > x * Pow(Score_MAX, n - 1)

\* `len as f32` and the literals 1.0 and 2.0, in units.
f32_of(n) == f32_finite(n * Score_MAX)

----------------------------------------------------------------------------
(* The aggregators *)

\* SumAggregator::aggregate.
SumAggregator_aggregate(threshold, scores) ==
    LET sum == Score_sum(scores)
    IN  IF sum < threshold THEN Score_MIN ELSE sum

\* ProductAggregator::aggregate.
ProductAggregator_aggregate(threshold, scores) ==
    LET product == Score_product(scores)
    IN  IF product < threshold THEN Score_MIN ELSE product

\* Faulty variant: no children give Score::MAX.
MaximumAggregator_aggregate_or_max(threshold, scores) ==
    LET max == IF scores = <<>> THEN Score_MAX
               ELSE CHOOSE m \in Range(scores) : \A x \in Range(scores) : x <= m
    IN  IF max < threshold THEN Score_MIN ELSE max

\* MaximumAggregator::aggregate.
MaximumAggregator_aggregate(threshold, scores) ==
    LET max == IF scores = <<>> THEN Score_MIN
               ELSE CHOOSE m \in Range(scores) : \A x \in Range(scores) : x <= m
    IN  IF max < threshold THEN Score_MIN ELSE max

\* MinimumAggregator::aggregate.
MinimumAggregator_aggregate(threshold, scores) ==
    LET min == IF scores = <<>> THEN Score_MIN ELSE Score_min(scores)
    IN  IF min < threshold THEN Score_MIN ELSE min

\* MedianAggregator::aggregate.
MedianAggregator_aggregate(threshold, scores) ==
    LET sorted == sort_unstable(scores)
        len == Len(sorted)
    IN  IF len = 0 THEN Score_MIN
        ELSE LET median ==
                    IF len % 2 = 0
                    THEN LET mid == len \div 2
                             left == sorted[mid]
                             right == sorted[mid + 1]
                         IN  Score_new(f32_div(f32_add(left, right), f32_of(2)))
                    ELSE sorted[(len \div 2) + 1]
             IN  IF median < threshold THEN Score_MIN ELSE median

\* AverageAggregator::aggregate.
AverageAggregator_aggregate(scores) ==
    LET len == Len(scores)
    IN  IF len = 0 THEN Score_MIN
        ELSE Score_new(f32_div(Score_sum(scores), f32_of(len)))

\* scores.iter().fold(1.0, |acc, score| acc * score.get())
RECURSIVE fold_product(_)
fold_product(scores) ==
    IF scores = <<>> THEN f32_of(1)
    ELSE f32_mul(fold_product(Front(scores)), Last(scores))

\* scores.iter().fold(0.0, |acc, score| acc + 1.0 / score.get())
RECURSIVE fold_reciprocals(_)
fold_reciprocals(scores) ==
    IF scores = <<>> THEN 0
    ELSE f32_add(fold_reciprocals(Front(scores)), f32_div(f32_of(1), Last(scores)))

\* GeometricMeanAggregator::aggregate of average.rs, the one compiled.
GeometricMeanAggregator_aggregate(scores) ==
    LET len == Len(scores)
    IN  IF len = 0 THEN Score_MIN
        ELSE Score_new(f32_root(fold_product(scores), len))

\* HarmonicMeanAggregator::aggregate of average.rs, the one compiled.
HarmonicMeanAggregator_aggregate(scores) ==
    LET len == Len(scores)
    IN  IF len = 0 THEN Score_MIN
        ELSE Score_new(f32_div(f32_of(len), fold_reciprocals(scores)))

\* GeometricMeanAggregator::aggregate of mean.rs, with a threshold.
mean_GeometricMeanAggregator_aggregate(threshold, scores) ==
    LET len == Len(scores)
    IN  IF len = 0 THEN Score_MIN
        ELSE LET geometric_mean == Score_new(f32_root(fold_product(scores), len))
             IN  IF geometric_mean < threshold THEN Score_MIN ELSE geometric_mean

\* HarmonicMeanAggregator::aggregate of mean.rs, with a threshold.
mean_HarmonicMeanAggregator_aggregate(threshold, scores) ==
    LET len == Len(scores)
    IN  IF len = 0 THEN Score_MIN
        ELSE LET harmonic_mean ==
                    Score_new(f32_div(f32_of(len), fold_reciprocals(scores)))
             IN  IF harmonic_mean < threshold THEN Score_MIN ELSE harmonic_mean

\* Faulty variant: the second score minus the first.
DifferenceAggregator_aggregate_swapped(scores) ==
    IF Len(scores) < 2 THEN NAN ELSE Score_sub(scores[2], scores[1])

\* DifferenceAggregator::aggregate: scores[0] - scores[1]; indexing panics
\* when there are fewer than two scores (the result NAN stands for the
\* panic), further scores are not looked at.
DifferenceAggregator_aggregate(scores) ==
    IF Len(scores) < 2 THEN NAN ELSE Score_sub(scores[1], scores[2])

\* A curve: its domain and its values.  Curve::sample gives nothing outside
\* the domain; <<>> is None and <<v>> is Some(v).
Curve_sample(curve, t) ==
    IF curve.domain[1] <= t /\ t <= curve.domain[2] THEN <<curve.f[t]>> ELSE <<>>

\* scores.into_iter().flat_map(|score| self.curve.sample(score.get())).collect()
RECURSIVE flat_map_sample(_, _)
flat_map_sample(curve, scores) ==
    IF scores = <<>> THEN <<>>
    ELSE Curve_sample(curve, Head(scores)) \o flat_map_sample(curve, Tail(scores))

\* scores.iter().any(|&score| score < self.threshold)
any_below(scores, threshold) == \E i \in 1..Len(scores) : scores[i] < threshold

\* Aggregator::aggregate of the aggregator `self` on the children scores:
\* the score returned, and `passed`, the scores each aggregator was called
\* with, from `self` inwards.
RECURSIVE Aggregator_aggregate(_, _)

\* Faulty variant: an output equal to the threshold is cut as well.
OutputThresholdAggregator_aggregate_inclusive(self, scores) ==
    LET inner == Aggregator_aggregate(self.aggregator, scores)
    IN  [score |-> IF inner.score <= self.threshold THEN Score_MIN ELSE inner.score,
         passed |-> <<scores>> \o inner.passed]

\* OutputThresholdAggregator::aggregate, built by threshold(t).
OutputThresholdAggregator_aggregate(self, scores) ==
    LET inner == Aggregator_aggregate(self.aggregator, scores)
    IN  [score |-> IF inner.score < self.threshold THEN Score_MIN ELSE inner.score,
         passed |-> <<scores>> \o inner.passed]

\* Faulty variant: the wrapped aggregator is called whatever the children.
InputThresholdAggregator_aggregate_unchecked(self, scores) ==
    LET inner == Aggregator_aggregate(self.aggregator, scores)
    IN  [score |-> inner.score, passed |-> <<scores>> \o inner.passed]

\* InputThresholdAggregator::aggregate, built by input_threshold(t).
InputThresholdAggregator_aggregate(self, scores) ==
    IF any_below(scores, self.threshold)
    THEN [score |-> Score_MIN, passed |-> <<scores>>]
    ELSE LET inner == Aggregator_aggregate(self.aggregator, scores)
         IN  [score |-> inner.score, passed |-> <<scores>> \o inner.passed]

\* Faulty variant: a score that cannot be sampled becomes Score::MIN.
CurveInputAggregator_aggregate_or_min(self, scores) ==
    LET sampled == [i \in 1..Len(scores) |->
                        IF Curve_sample(self.curve, scores[i]) = <<>> THEN Score_MIN
                        ELSE Curve_sample(self.curve, scores[i])[1]]
        inner == Aggregator_aggregate(self.aggregator, sampled)
    IN  [score |-> inner.score, passed |-> <<scores>> \o inner.passed]

\* CurveInputAggregator::aggregate, built by curve_input(c).
CurveInputAggregator_aggregate(self, scores) ==
    LET inner == Aggregator_aggregate(self.aggregator,
                                      flat_map_sample(self.curve, scores))
    IN  [score |-> inner.score, passed |-> <<scores>> \o inner.passed]

Aggregator_aggregate(self, scores) ==
    CASE self.node = "threshold" -> OutputThresholdAggregator_aggregate(self, scores)
      [] self.node = "input_threshold" -> InputThresholdAggregator_aggregate(self, scores)
      [] self.node = "curve_input" -> CurveInputAggregator_aggregate(self, scores)
      [] OTHER ->
            [score |->
                CASE self.node = "sum" -> SumAggregator_aggregate(self.threshold, scores)
                  [] self.node = "product" ->
                        ProductAggregator_aggregate(self.threshold, scores)
                  [] self.node = "maximum" ->
                        MaximumAggregator_aggregate(self.threshold, scores)
                  [] self.node = "minimum" ->
                        MinimumAggregator_aggregate(self.threshold, scores)
                  [] self.node = "median" ->
                        MedianAggregator_aggregate(self.threshold, scores)
                  [] self.node = "average" -> AverageAggregator_aggregate(scores)
                  [] self.node = "geometric_mean" ->
                        GeometricMeanAggregator_aggregate(scores)
                  [] self.node = "harmonic_mean" ->
                        HarmonicMeanAggregator_aggregate(scores)
                  [] self.node = "mean::geometric_mean" ->
                        mean_GeometricMeanAggregator_aggregate(self.threshold, scores)
                  [] self.node = "mean::harmonic_mean" ->
                        mean_HarmonicMeanAggregator_aggregate(self.threshold, scores)
                  [] self.node = "difference" ->
                        DifferenceAggregator_aggregate(scores),
             passed |-> <<scores>>]

----------------------------------------------------------------------------
(* NodeId and the petgraph DiGraphMap holding the dependency graph *)

Evaluator(i) == <<"Evaluator", i>>
Aggregator(i) == <<"Aggregator", i>>

\* DiGraphMap::add_node: inserts the node if it is not there yet.
DiGraphMap_add_node(g, n) ==
    IF n \in DOMAIN g.adj THEN g
    ELSE [nodes |-> Append(g.nodes, n), adj |-> MapInsert(g.adj, n, <<>>)]

\* Faulty variant: the edge is recorded from b to a.
DiGraphMap_add_edge_reversed(g, a, b) ==
    IF a \in DOMAIN g.adj /\ \E k \in 1..Len(g.adj[a]) : g.adj[a][k] = <<b, "Incoming">>
    THEN g
    ELSE LET ga == DiGraphMap_add_node(g, a)
             g1 == [ga EXCEPT !.adj[a] = Append(@, <<b, "Incoming">>)]
             gb == DiGraphMap_add_node(g1, b)
         IN  IF a = b THEN g1
             ELSE [gb EXCEPT !.adj[b] = Append(@, <<a, "Outgoing">>)]

\* DiGraphMap::add_edge(a, b): a no-op on an existing edge; otherwise both ends
\* are inserted as needed (a first) and the edge is pushed on both adjacency
\* lists.
DiGraphMap_add_edge(g, a, b) ==
    IF a \in DOMAIN g.adj /\ \E k \in 1..Len(g.adj[a]) : g.adj[a][k] = <<b, "Outgoing">>
    THEN g
    ELSE LET ga == DiGraphMap_add_node(g, a)
             g1 == [ga EXCEPT !.adj[a] = Append(@, <<b, "Outgoing">>)]
             gb == DiGraphMap_add_node(g1, b)
         IN  IF a = b THEN g1
             ELSE [gb EXCEPT !.adj[b] = Append(@, <<a, "Incoming">>)]

\* Faulty variant: the neighbours in both directions (DiGraphMap::neighbors of an
\* undirected view).
neighbors_undirected(g, n, dir) ==
    [k \in 1..Len(g.adj[n]) |-> g.adj[n][k][1]]

\* DiGraphMap::neighbors_directed: the neighbours of n in the given direction,
\* in adjacency-list order.
neighbors_directed(g, n, dir) ==
    LET sel == SelectSeq(g.adj[n], LAMBDA e : e[2] = dir)
    IN  [k \in 1..Len(sel) |-> sel[k][1]]

\* The edges of the graph as (source, target) pairs.
Edges(g) ==
    {<<a, b>> \in (DOMAIN g.adj) \X (DOMAIN g.adj) :
        \E k \in 1..Len(g.adj[a]) : g.adj[a][k] = <<b, "Outgoing">>}

----------------------------------------------------------------------------
(* petgraph::algo::toposort: an iterative depth-first search started from   *)
(* every node in reverse insertion order; a node is finished when popped    *)
(* the second time, and the result is the reversed finishing order.         *)

\* Pushes onto the stack the not yet discovered successors, in order.
RECURSIVE PushSuccessors(_, _, _)
PushSuccessors(stack, succs, discovered) ==
    IF succs = <<>> THEN stack
    ELSE PushSuccessors(
            IF Head(succs) \in discovered THEN stack ELSE Append(stack, Head(succs)),
            Tail(succs), discovered)

\* The inner `while let Some(&nx) = dfs.stack.last()` loop.
RECURSIVE DfsLoop(_, _)
DfsLoop(g, st) ==
    IF st.stack = <<>> THEN st
    ELSE LET nx == Last(st.stack)
         IN  IF nx \notin st.discovered
             THEN LET disc == st.discovered \cup {nx}
                  IN  DfsLoop(g, [st EXCEPT
                        !.discovered = disc,
                        !.stack = PushSuccessors(st.stack,
                                    neighbors_directed(g, nx, "Outgoing"), disc)])
             ELSE DfsLoop(g, [st EXCEPT
                        !.stack = Front(st.stack),
                        !.finished = @ \cup {nx},
                        !.finish_stack = IF nx \in st.finished THEN @
                                         ELSE Append(@, nx)])

\* The outer `for i in g.node_identifiers().rev()` loop.
RECURSIVE DfsFrom(_, _, _)
DfsFrom(g, order, st) ==
    IF order = <<>> THEN st
    ELSE LET i == Head(order)
         IN  IF i \in st.discovered THEN DfsFrom(g, Tail(order), st)
             ELSE DfsFrom(g, Tail(order),
                          DfsLoop(g, [st EXCEPT !.stack = <<i>>]))

\* Faulty variant: the finishing order itself, not reversed.
toposort_unreversed(g) ==
    DfsFrom(g, Reverse(g.nodes),
            [stack |-> <<>>, discovered |-> {}, finished |-> {},
             finish_stack |-> <<>>]).finish_stack

\* Faulty variant: the search is started from the nodes in insertion order.
toposort_forward(g) ==
    Reverse(DfsFrom(g, g.nodes,
                    [stack |-> <<>>, discovered |-> {}, finished |-> {},
                     finish_stack |-> <<>>]).finish_stack)

toposort(g) ==
    Reverse(DfsFrom(g, Reverse(g.nodes),
                    [stack |-> <<>>, discovered |-> {}, finished |-> {},
                     finish_stack |-> <<>>]).finish_stack)

----------------------------------------------------------------------------
(* Node configs: FlowNodeConfig { node, label }.  An evaluator config holds  *)
(* a constant evaluator returning `param` or a target evaluator scoring a    *)
(* component of the target entity; an aggregator config holds a sum          *)
(* aggregator with threshold `param`, or the difference aggregator, and its  *)
(* children configs.  `mapper` tells whether the node is wrapped by          *)
(* map(|mapping: Mapping<Score>| mapping.value * 2.).                        *)

\* FlowNodeConfig::evaluator(constant(value)), labelled or not.
EvaluatorConfig(value, label) ==
    [kind |-> "Evaluator", node |-> "constant", param |-> value,
     mapper |-> FALSE, children |-> <<>>, label |-> label]

\* FlowNodeConfig::evaluator(target::<C>()), labelled or not.
TargetConfig(label) ==
    [kind |-> "Evaluator", node |-> "target", param |-> Score_MIN,
     mapper |-> FALSE, children |-> <<>>, label |-> label]

\* FlowNodeConfig::aggregator(sum(threshold), children), labelled or not.
AggregatorConfig(threshold, children, label) ==
    [kind |-> "Aggregator", node |-> "sum", param |-> threshold,
     mapper |-> FALSE, children |-> children, label |-> label]

\* Number of nodes described by a sequence of config trees.
RECURSIVE ConfigSize(_)
ConfigSize(configs) ==
    IF configs = <<>> THEN 0
    ELSE 1 + ConfigSize(Head(configs).children) + ConfigSize(Tail(configs))

----------------------------------------------------------------------------
(* Flow and FlowGraph *)

\* A boxed node: what it is, its parameter, the label its config carried, how
\* often its initialize was called, whether it was ever evaluated, and whether
\* it was evaluated before being initialized; for a node wrapped by map, how
\* often initialize was called on the mapper and whether the mapper mapped
\* before being initialized.
NewNode(config) ==
    [node |-> config.node, param |-> config.param, config_label |-> config.label,
     inits |-> 0, evaluated |-> FALSE, early |-> FALSE,
     mapper |-> config.mapper, mapper_inits |-> 0, mapped_early |-> FALSE]

\* FlowGraph::default.
FlowGraph_default ==
    [evaluators |-> <<>>, aggregators |-> <<>>, uninitialized |-> <<>>,
     labeled |-> EmptyMap, labels |-> EmptyMap,
     dependency |-> [nodes |-> <<>>, adj |-> EmptyMap], dependency_toposort |-> <<>>]

\* Flow::new.
Flow_new(label) == [label |-> label, graph |-> FlowGraph_default]

\* Faulty variant: the topological order is not recomputed.
add_node_stale_order(graph, parent, config) ==
    LET node == IF config.kind = "Aggregator"
                THEN Aggregator(Len(graph.aggregators))
                ELSE Evaluator(Len(graph.evaluators))
        g1 == IF config.kind = "Aggregator"
              THEN [graph EXCEPT !.aggregators = Append(@, NewNode(config)),
                                 !.uninitialized = Append(@, node)]
              ELSE [graph EXCEPT !.evaluators = Append(@, NewNode(config)),
                                 !.uninitialized = Append(@, node)]
        dep == IF parent # NoParent
               THEN DiGraphMap_add_edge(g1.dependency, node, parent)
               ELSE DiGraphMap_add_node(g1.dependency, node)
    IN  [graph |-> [g1 EXCEPT !.dependency = dep],
         node |-> node,
         children |-> config.children]

\* FlowGraph::add_node: pushes the node on its arena and on the uninitialized
\* queue, adds it (with the edge to its parent) to the dependency graph and
\* recomputes the topological order.
add_node(graph, parent, config) ==
    LET node == IF config.kind = "Aggregator"
                THEN Aggregator(Len(graph.aggregators))
                ELSE Evaluator(Len(graph.evaluators))
        g1 == IF config.kind = "Aggregator"
              THEN [graph EXCEPT !.aggregators = Append(@, NewNode(config)),
                                 !.uninitialized = Append(@, node)]
              ELSE [graph EXCEPT !.evaluators = Append(@, NewNode(config)),
                                 !.uninitialized = Append(@, node)]
        dep == IF parent # NoParent
               THEN DiGraphMap_add_edge(g1.dependency, node, parent)
               ELSE DiGraphMap_add_node(g1.dependency, node)
    IN  [graph |-> [g1 EXCEPT !.dependency = dep,
                              !.dependency_toposort = toposort(dep)],
         node |-> node,
         children |-> config.children]

\* Faulty variant: a bound label is rebound to the new node.
add_label_overwrite(flow, label, node) ==
    [flow EXCEPT !.graph.labeled = MapInsert(@, node, label),
                 !.graph.labels = MapInsert(@, label, node)]

\* Faulty variant: only the label-to-node direction is recorded.
add_label_one_way(flow, label, node) ==
    IF label \in DOMAIN flow.graph.labels
    THEN flow
    ELSE [flow EXCEPT !.graph.labels = MapInsert(@, label, node)]

\* Flow::add_label: binds the label to the node unless the label is bound.
add_label(flow, label, node) ==
    IF label \in DOMAIN flow.graph.labels
    THEN flow
    ELSE [flow EXCEPT !.graph.labeled = MapInsert(@, node, label),
                      !.graph.labels = MapInsert(@, label, node)]

\* Faulty variant: configs with neither parent nor label are registered like the rest.
RECURSIVE add_nodes_with_parent_noskip(_, _, _)
add_nodes_with_parent_noskip(flow, parent, configs) ==
    IF configs = <<>> THEN flow
    ELSE LET config == Head(configs)
             r == add_node(flow.graph, parent, config)
             f1 == [flow EXCEPT !.graph = r.graph]
             f2 == IF config.label # NoLabel
                   THEN add_label(f1, config.label, r.node)
                   ELSE f1
             f3 == IF config.kind = "Aggregator"
                   THEN add_nodes_with_parent_noskip(f2, r.node, r.children)
                   ELSE f2
         IN  add_nodes_with_parent_noskip(f3, parent, Tail(configs))

\* Faulty variant: the children of a skipped config are registered in its place.
RECURSIVE add_nodes_with_parent_descending(_, _, _)
add_nodes_with_parent_descending(flow, parent, configs) ==
    IF configs = <<>> THEN flow
    ELSE LET config == Head(configs)
         IN  IF parent = NoParent /\ config.label = NoLabel
             THEN add_nodes_with_parent_descending(
                        add_nodes_with_parent_descending(flow, parent, config.children),
                        parent, Tail(configs))
             ELSE LET r == add_node(flow.graph, parent, config)
                      f1 == [flow EXCEPT !.graph = r.graph]
                      f2 == IF config.label # NoLabel
                            THEN add_label(f1, config.label, r.node)
                            ELSE f1
                      f3 == IF config.kind = "Aggregator"
                            THEN add_nodes_with_parent_descending(f2, r.node, r.children)
                            ELSE f2
                  IN  add_nodes_with_parent_descending(f3, parent, Tail(configs))

\* Flow::add_nodes_with_parent: registers the configs in order, each followed
\* by its children; a config with neither parent nor label is skipped.
RECURSIVE add_nodes_with_parent(_, _, _)
add_nodes_with_parent(flow, parent, configs) ==
    IF configs = <<>> THEN flow
    ELSE LET config == Head(configs)
         IN  IF parent = NoParent /\ config.label = NoLabel
             THEN add_nodes_with_parent(flow, parent, Tail(configs))
             ELSE LET r == add_node(flow.graph, parent, config)
                      f1 == [flow EXCEPT !.graph = r.graph]
                      f2 == IF config.label # NoLabel
                            THEN add_label(f1, config.label, r.node)
                            ELSE f1
                      f3 == IF config.kind = "Aggregator"
                            THEN add_nodes_with_parent(f2, r.node, r.children)
                            ELSE f2
                  IN  add_nodes_with_parent(f3, parent, Tail(configs))

\* Faulty variant: the configs are registered in place of the nodes of the flow.
add_nodes_replacing(flow, configs) ==
    add_nodes_with_parent(Flow_new(flow.label), NoParent, configs)

\* Flow::add_nodes.
add_nodes(flow, configs) == add_nodes_with_parent(flow, NoParent, configs)

\* The node object a node id indexes.
NodeAt(graph, id) ==
    IF id[1] = "Evaluator" THEN graph.evaluators[id[2] + 1]
    ELSE graph.aggregators[id[2] + 1]

\* The graph with the node object of id replaced.
WithNode(graph, id, obj) ==
    IF id[1] = "Evaluator" THEN [graph EXCEPT !.evaluators[id[2] + 1] = obj]
    ELSE [graph EXCEPT !.aggregators[id[2] + 1] = obj]

\* Faulty variant: initialize is called on every node of both arenas, not only on the
\* queued ones.
FlowGraph_initialize_all(graph) ==
    [graph EXCEPT
        !.evaluators = [i \in 1..Len(@) |-> [@[i] EXCEPT !.inits = @ + 1]],
        !.aggregators = [i \in 1..Len(@) |-> [@[i] EXCEPT !.inits = @ + 1]],
        !.uninitialized = <<>>]

\* FlowGraph::initialize: drains the uninitialized queue, calling initialize
\* on each drained node.  MapAggregator::initialize initializes the mapper
\* and the wrapped aggregator, MapEvaluator::initialize the wrapped evaluator.
RECURSIVE FlowGraph_initialize(_)
FlowGraph_initialize(graph) ==
    IF graph.uninitialized = <<>> THEN graph
    ELSE LET id == Head(graph.uninitialized)
             obj == NodeAt(graph, id)
             g1 == WithNode(graph, id,
                        [obj EXCEPT !.inits = @ + 1,
                                    !.mapper_inits =
                                        IF obj.mapper /\ id[1] = "Aggregator"
                                        THEN @ + 1 ELSE @])
         IN  FlowGraph_initialize([g1 EXCEPT !.uninitialized = Tail(@)])

\* Faulty variant: nothing is initialized.
initialize_skipped(flow) == flow

\* Flow::initialize.
initialize(flow) == [flow EXCEPT !.graph = FlowGraph_initialize(@)]

----------------------------------------------------------------------------
(* Flow::run_readonly *)

\* The entity the tests pass as target.
PLACEHOLDER == 0

\* ConstantScoreEvaluator::evaluate and TargetEvaluator::evaluate: the constant,
\* or the score of the target's component (Score::MIN when the target has
\* none).
Evaluator_evaluate(obj, world, target) ==
    IF obj.node = "target"
    THEN IF target \in DOMAIN world THEN world[target].value ELSE Score_MIN
    ELSE obj.param

\* OutputThresholdEvaluator::evaluate, built by threshold(t) on an evaluator.
OutputThresholdEvaluator_evaluate(self, world, target) ==
    LET score == Evaluator_evaluate(self.evaluator, world, target)
    IN  IF score < self.threshold THEN Score_MIN ELSE score

\* One iteration of `for &node in &self.graph.dependency_toposort`, for the
\* node at position i.  A node wrapped by map hands its output to the mapper.  st.order and st.received record which nodes were
\* evaluated, in order, and what each aggregator was handed (the scores and the
\* nodes they came from).
run_step(i, st) ==
    LET node == st.graph.dependency_toposort[i]
        obj == NodeAt(st.graph, node)
    IN  IF node[1] = "Aggregator" /\ node \notin DOMAIN st.aggregator_child_scores
        THEN [st EXCEPT !.panic = "aggregator node was not scored before its children"]
        ELSE
        LET scores == IF node[1] = "Aggregator"
                      THEN st.aggregator_child_scores[node] ELSE <<>>
            value == IF node[1] = "Aggregator"
                     THEN IF obj.node = "difference"
                          THEN DifferenceAggregator_aggregate(scores)
                          ELSE SumAggregator_aggregate(obj.param, scores)
                     ELSE Evaluator_evaluate(obj, st.world, st.target)
            score == IF obj.mapper /\ ~is_nan(value)
                     THEN Score_mul(value, f32_of(2)) ELSE value
            buffers == IF node[1] = "Aggregator"
                       THEN MapRemove(st.aggregator_child_scores, node)
                       ELSE st.aggregator_child_scores
            sources == IF node[1] = "Aggregator"
                       THEN MapRemove(st.child_sources, node)
                       ELSE st.child_sources
            received == IF node[1] = "Aggregator"
                        THEN MapInsert(st.received, node,
                                [scores |-> scores, sources |-> st.child_sources[node]])
                        ELSE st.received
            graph == WithNode(st.graph, node,
                        [obj EXCEPT !.evaluated = TRUE,
                                    !.early = @ \/ obj.inits = 0,
                                    !.mapped_early =
                                        @ \/ (obj.mapper /\ obj.mapper_inits = 0)])
            labeled_scores == IF node \in DOMAIN st.graph.labeled
                              THEN MapInsert(st.labeled_scores, st.graph.labeled[node], score)
                              ELSE st.labeled_scores
            parents == neighbors_directed(st.graph.dependency, node, "Outgoing")
            pushed == IF parents = <<>> THEN buffers
                      ELSE LET parent == Head(parents)
                           IN  MapInsert(buffers, parent,
                                    Append(IF parent \in DOMAIN buffers
                                           THEN buffers[parent] ELSE <<>>, score))
            pushed_sources == IF parents = <<>> THEN sources
                              ELSE LET parent == Head(parents)
                                   IN  MapInsert(sources, parent,
                                            Append(IF parent \in DOMAIN sources
                                                   THEN sources[parent] ELSE <<>>, node))
        IN  IF is_nan(value)
            THEN [st EXCEPT !.panic = "index out of bounds"]
            ELSE
            [st EXCEPT !.graph = graph,
                       !.labeled_scores = labeled_scores,
                       !.aggregator_child_scores = pushed,
                       !.child_sources = pushed_sources,
                       !.received = received,
                       !.order = Append(@, node),
                       !.produced = MapInsert(@, node, score)]

\* The loop `for &node in &self.graph.dependency_toposort`, from position i; a
\* panic ends it.
RECURSIVE run_loop(_, _)
run_loop(i, st) ==
    IF i > Len(st.graph.dependency_toposort) THEN st
    ELSE LET next == run_step(i, st)
         IN  IF next.panic # "none" THEN next ELSE run_loop(i + 1, next)

\* Faulty variant: the assertion is missing.
is_initialized_unchecked(graph) == TRUE

\* Whether run_readonly's assertion on the uninitialized queue passes.
is_initialized(graph) == graph.uninitialized = <<>>

\* The locals of run_readonly before its loop: the empty map of labelled
\* scores and the empty children-score buffers.
run_start(flow, world, target) ==
    [graph |-> flow.graph, world |-> world, target |-> target, panic |-> "none",
     labeled_scores |-> EmptyMap,
     aggregator_child_scores |-> EmptyMap,
     child_sources |-> EmptyMap,
     received |-> EmptyMap, order |-> <<>>, produced |-> EmptyMap]

\* Faulty variant: the loop drains the cached topological order instead of
\* borrowing it.
run_readonly_draining(flow, world, target) ==
    LET start == run_start(flow, world, target)
    IN  IF ~is_initialized(flow.graph)
        THEN [start EXCEPT !.panic = "flow was not initialized before running"]
        ELSE [run_loop(1, start) EXCEPT !.graph.dependency_toposort = <<>>]

\* Flow::run_readonly: panics on an uninitialized flow, otherwise walks the
\* cached topological order.
run_readonly(flow, world, target) ==
    LET start == run_start(flow, world, target)
    IN  IF ~is_initialized(flow.graph)
        THEN [start EXCEPT !.panic = "flow was not initialized before running"]
        ELSE run_loop(1, start)

\* Faulty variant: run_readonly on the flow as it is.
run_as_it_is(flow, world, target) == run_readonly(flow, world, target)

\* Flow::run: initialize, then run_readonly.
run(flow, world, target) == run_readonly(initialize(flow), world, target)

----------------------------------------------------------------------------
(* State *)

VARIABLES
    flow,       \* a Flow driven directly through its methods
    outcome,    \* the last operation: its name and what it returned; for
                \* add_nodes the top-level configs that carry a label and the
                \* number of those that carry none
    flows,      \* the Flows resource of the world: whether it exists, and
                \* its map from flow label to Flow
    scopes,     \* the try_flow_scope calls whose callback is executing,
                \* innermost last: the label, the flow pulled out of the
                \* registry, and whether the callback has changed it
    components, \* the entities of the world with their components: the
                \* label of the assigned flow, the ComputedScores and a
                \* scoreable component
    jobs,       \* the calls of run_readonly on `flow` that are in progress at
                \* the same time, one per target: how far each has come and
                \* its locals (the flow and the world it borrows left out),
                \* the children-score buffers apart
    calc,       \* one call of an operation on scores: the operation, its
                \* operands, and once it is done what it returned
    driver      \* the batch driver (run_entity_flows or
                \* run_all_entity_flows) that is running or ran last: what is
                \* left of its loops, the entities whose flow it ran and those
                \* it skipped, the queued scores, and the ComputedScores as
                \* they were when it started

vars == <<flow, outcome, flows, scopes, components, jobs, calc, driver>>

\* What the operations on flows and on the registry leave alone.
others == <<components, jobs, calc, driver>>

\* A world without entities.
NoComponents == EmptyMap

\* No call of run_readonly is in progress.
NoJobs == [runs |-> EmptyMap, cells |-> EmptyMap]

\* No operation on scores is called.
NoCalc ==
    [op |-> "none", done |-> FALSE, a |-> Score_MIN, b |-> Score_MIN,
     self |-> [node |-> "none"], scores |-> <<>>, passed |-> <<>>,
     result |-> Score_MIN]

\* No batch driver has run.
NoDriver ==
    [op |-> "none", phase |-> "idle", labels |-> {}, pending |-> <<>>,
     parallel |-> {}, ran |-> {}, failed |-> {}, queue |-> EmptyMap,
     before |-> EmptyMap]

\* The world before the Flows resource is created.
NoFlows == [exists |-> FALSE, inner |-> EmptyMap]

\* The label of the flow driven directly.
TestFlow == "TestFlow"

NoOutcome ==
    [op |-> "new", phase |-> "done", label |-> "", error |-> "Ok",
     changed |-> FALSE, warned |-> FALSE, lost |-> 0,
     kept |-> <<>>, skipped |-> 0, panic |-> "none", labeled_scores |-> EmptyMap,
     order |-> <<>>, received |-> EmptyMap, produced |-> EmptyMap,
     leftover |-> EmptyMap]

\* The outcome of a run, taken from the final loop state.
RunOutcome(op, st) ==
    [op |-> op, phase |-> "done", label |-> "", error |-> "Ok",
     changed |-> FALSE, warned |-> FALSE, lost |-> 0,
     kept |-> <<>>, skipped |-> 0, panic |-> st.panic,
     labeled_scores |-> st.labeled_scores, order |-> st.order,
     received |-> st.received, produced |-> st.produced,
     leftover |-> st.aggregator_child_scores]

\* Number of nodes registered in a flow.
NodeCount(f) == Len(f.graph.evaluators) + Len(f.graph.aggregators)

\* A panic ends the program.
Running == outcome.panic = "none"

Init ==
    /\ flow = Flow_new(TestFlow)
    /\ outcome = NoOutcome
    /\ flows = NoFlows
    /\ scopes = <<>>
    /\ components = NoComponents
    /\ jobs = NoJobs
    /\ calc = NoCalc
    /\ driver = NoDriver

\* flow.add_nodes(configs)
AddNodes(configs) ==
    /\ Running
    /\ flow' = add_nodes(flow, configs)
    /\ outcome' = [NoOutcome EXCEPT
            !.op = "add_nodes",
            !.kept = SelectSeq(configs, LAMBDA c : c.label # NoLabel),
            !.skipped = Len(SelectSeq(configs, LAMBDA c : c.label = NoLabel))]
    /\ UNCHANGED <<flows, scopes, others>>

\* flow.initialize(world)
Initialize ==
    /\ Running
    /\ flow' = initialize(flow)
    /\ outcome' = [NoOutcome EXCEPT !.op = "initialize"]
    /\ UNCHANGED <<flows, scopes, others>>

\* flow.run(world, target)
Run ==
    /\ Running
    /\ LET st == run(flow, components, PLACEHOLDER)
       IN  /\ flow' = [flow EXCEPT !.graph = st.graph]
           /\ outcome' = RunOutcome("run", st)
    /\ UNCHANGED <<flows, scopes, others>>

\* flow.run_readonly(world, target)
RunReadonly ==
    /\ Running
    /\ LET st == run_readonly(flow, components, PLACEHOLDER)
       IN  /\ flow' = [flow EXCEPT !.graph = st.graph]
           /\ outcome' = RunOutcome("run_readonly", st)
    /\ UNCHANGED <<flows, scopes, others>>

----------------------------------------------------------------------------
(* Config trees given to add_nodes, by number of nodes.  An aggregator       *)
(* config always has at least one child: with_children takes a non-empty     *)
(* tuple, a config or an evaluator.                                          *)

RECURSIVE Trees(_, _, _), Forests(_, _, _)
Trees(n, values, labels) ==
    IF n = 1 THEN {EvaluatorConfig(v, l) : v \in values, l \in labels}
    ELSE {AggregatorConfig(Score_MIN, cs, l) :
            cs \in Forests(n - 1, values, labels), l \in labels}

Forests(n, values, labels) ==
    IF n = 0 THEN {<<>>}
    ELSE UNION {{<<t>> \o f : t \in Trees(k, values, labels),
                              f \in Forests(n - k, values, labels)} : k \in 1..n}

\* All config sequences of each size, with every choice of label and value.
Configs == [n \in 1..MaxNodes |-> Forests(n, Values, ScoreLabels \cup {NoLabel})]

Next ==
    \/ \E n \in 1..(MaxNodes - NodeCount(flow)) : \E configs \in Configs[n] :
            AddNodes(configs)
    \/ Initialize
    \/ Run
    \/ RunReadonly

Spec == Init /\ [][Next]_vars

\* Config sequences for the ordering specification: every shape of tree, all
\* nodes labelled alike.
OrderConfigs == [n \in 1..MaxOrderNodes |-> Forests(n, Values, {"L1"})]

NextOrder ==
    \/ \E n \in 1..(MaxOrderNodes - NodeCount(flow)) : \E configs \in OrderConfigs[n] :
            AddNodes(configs)
    \/ Initialize
    \/ Run
    \/ RunReadonly

SpecOrder == Init /\ [][NextOrder]_vars

----------------------------------------------------------------------------
(* The Flows registry and the World extension methods *)

\* Flow labels the callers ask for; nodes are only ever added under "F", so
\* no flow is ever created under "G".
FlowLabels == {"F", "G"}

\* Largest number of nodes held by all flows of the world together.
MaxWorldNodes == 2

\* Largest number of nested try_flow_scope calls.
MaxScopeDepth == 1

\* Flows::entry: the map with a new empty flow under the label if it had none.
Flows_entry(inner, label) ==
    IF label \in DOMAIN inner THEN inner
    ELSE MapInsert(inner, label, Flow_new(label))

\* Faulty variant: an existing flow under the label is kept.
Flows_insert_keep(inner, f) ==
    IF f.label \in DOMAIN inner THEN inner ELSE MapInsert(inner, f.label, f)

\* Flows::insert: the flow replaces whatever its label was bound to.
Flows_insert(inner, f) == MapInsert(inner, f.label, f)

\* Flows::remove.
Flows_remove(inner, label) == MapRemove(inner, label)

\* Flows::add_nodes.
Flows_add_nodes(inner, label, configs) ==
    LET e == Flows_entry(inner, label)
    IN  MapInsert(e, label, add_nodes(e[label], configs))

\* World::add_nodes: get_resource_or_init::<Flows>(), then Flows::add_nodes.
World_add_nodes(fs, label, configs) ==
    [exists |-> TRUE, inner |-> Flows_add_nodes(fs.inner, label, configs)]

\* Faulty variant: the resource is created when missing, and so is the flow.
take_or_init(fs, label) ==
    LET e == Flows_entry(fs.inner, label)
    IN  [some |-> label \in DOMAIN fs.inner,
         flow |-> e[label],
         flows |-> [exists |-> TRUE,
                    inner |-> IF label \in DOMAIN fs.inner
                              THEN Flows_remove(fs.inner, label) ELSE e]]

\* The head of try_flow_scope: get_resource_mut::<Flows>() and then
\* Flows::remove; `some` tells whether a flow came out.
take(fs, label) ==
    IF fs.exists /\ label \in DOMAIN fs.inner
    THEN [some |-> TRUE, flow |-> fs.inner[label],
          flows |-> [fs EXCEPT !.inner = Flows_remove(@, label)]]
    ELSE [some |-> FALSE, flow |-> Flow_new(label), flows |-> fs]

\* Faulty variant: a flow found under the label is left in place and the returned
\* flow is dropped.
give_back_if_absent(fs, f) ==
    [flows |-> IF f.label \in DOMAIN fs.inner THEN fs
               ELSE [fs EXCEPT !.inner = Flows_insert(@, f)],
     old |-> f.label \in DOMAIN fs.inner,
     lost |-> 0]

\* The tail of try_flow_scope: resource_mut::<Flows>().insert(flow); `old`
\* tells whether a flow was overwritten, `lost` how many nodes that flow held.
give_back(fs, f) ==
    [flows |-> [fs EXCEPT !.inner = Flows_insert(@, f)],
     old |-> f.label \in DOMAIN fs.inner,
     lost |-> IF f.label \in DOMAIN fs.inner
              THEN NodeCount(fs.inner[f.label]) ELSE 0]

\* Whether the registry holds a flow under the label.
Registered(fs, label) == fs.exists /\ label \in DOMAIN fs.inner

\* Number of nodes in all flows of a map / of the scoped-out flows.
RECURSIVE MapNodes(_)
MapNodes(inner) ==
    IF DOMAIN inner = {} THEN 0
    ELSE LET l == CHOOSE x \in DOMAIN inner : TRUE
         IN  NodeCount(inner[l]) + MapNodes(MapRemove(inner, l))

RECURSIVE ScopedNodes(_)
ScopedNodes(frames) ==
    IF frames = <<>> THEN 0
    ELSE NodeCount(Head(frames).flow) + ScopedNodes(Tail(frames))

WorldNodes == MapNodes(flows.inner) + ScopedNodes(scopes)

\* world.add_nodes(label, configs), from anywhere (also inside a callback).
WorldAddNodes(label, configs) ==
    /\ Running
    /\ flows' = World_add_nodes(flows, label, configs)
    /\ outcome' = [NoOutcome EXCEPT
            !.op = "World::add_nodes", !.label = label,
            !.kept = SelectSeq(configs, LAMBDA c : c.label # NoLabel),
            !.skipped = Len(SelectSeq(configs, LAMBDA c : c.label = NoLabel))]
    /\ UNCHANGED <<flow, scopes, others>>

\* world.try_flow_scope(label, f) and world.flow_scope(label, f) up to the
\* start of the callback: the flow is pulled out and the callback starts, or
\* the call ends with TryRunFlowError (try_flow_scope) or a panic (flow_scope).
CallScope(op, label) ==
    /\ Running
    /\ Len(scopes) < MaxScopeDepth
    /\ LET t == take(flows, label)
       IN  IF t.some
           THEN /\ flows' = t.flows
                /\ scopes' = Append(scopes,
                        [op |-> op, label |-> label, flow |-> t.flow, changed |-> FALSE])
                /\ outcome' = [NoOutcome EXCEPT
                        !.op = op, !.label = label, !.phase = "callback"]
           ELSE /\ flows' = t.flows
                /\ scopes' = IF op = "flow_scope" THEN <<>> ELSE scopes
                /\ outcome' = [NoOutcome EXCEPT
                        !.op = op, !.label = label, !.error = label,
                        !.panic = IF op = "flow_scope" THEN "The flow with the label was not found." ELSE "none"]
    /\ UNCHANGED <<flow, others>>

\* world.try_run_flow(label, target) and world.run_flow(label, target): the
\* scope with the callback |world, flow| flow.run(world, target).
CallRun(op, label) ==
    /\ Running
    /\ LET t == take(flows, label)
       IN  IF t.some
           THEN LET st == run(t.flow, components, PLACEHOLDER)
                    back == give_back(t.flows, [t.flow EXCEPT !.graph = st.graph])
                IN  /\ flows' = back.flows
                    /\ scopes' = scopes
                    /\ outcome' = [RunOutcome(op, st) EXCEPT
                            !.label = label, !.warned = back.old,
                            !.lost = back.lost]
           ELSE /\ flows' = t.flows
                /\ scopes' = IF op = "run_flow" THEN <<>> ELSE scopes
                /\ outcome' = [NoOutcome EXCEPT
                        !.op = op, !.label = label, !.error = label,
                        !.panic = IF op = "run_flow" THEN "The flow with the label was not found." ELSE "none"]
    /\ UNCHANGED <<flow, others>>

\* The flow the innermost running callback holds.
Scoped == Last(scopes).flow

\* The scopes with the innermost callback's flow replaced; `changed` records
\* whether the callback has changed the flow it was handed.
WithScoped(f) ==
    [scopes EXCEPT ![Len(scopes)].flow = f,
                   ![Len(scopes)].changed = @ \/ f # Scoped]

\* Inside a callback: flow.add_nodes(configs)
CallbackAddNodes(configs) ==
    /\ Running
    /\ scopes # <<>>
    /\ scopes' = WithScoped(add_nodes(Scoped, configs))
    /\ outcome' = [NoOutcome EXCEPT
            !.op = "add_nodes", !.label = Last(scopes).label,
            !.kept = SelectSeq(configs, LAMBDA c : c.label # NoLabel),
            !.skipped = Len(SelectSeq(configs, LAMBDA c : c.label = NoLabel))]
    /\ UNCHANGED <<flow, flows, others>>

\* Inside a callback: flow.initialize(world)
CallbackInitialize ==
    /\ Running
    /\ scopes # <<>>
    /\ scopes' = WithScoped(initialize(Scoped))
    /\ outcome' = [NoOutcome EXCEPT !.op = "initialize", !.label = Last(scopes).label]
    /\ UNCHANGED <<flow, flows, others>>

\* Inside a callback: flow.run(world, target)
CallbackRun ==
    /\ Running
    /\ scopes # <<>>
    /\ LET st == run(Scoped, components, PLACEHOLDER)
       IN  /\ scopes' = WithScoped([Scoped EXCEPT !.graph = st.graph])
           /\ outcome' = [RunOutcome("run", st) EXCEPT !.label = Last(scopes).label]
    /\ UNCHANGED <<flow, flows, others>>

\* Inside a callback: flow.run_readonly(world, target); its panic unwinds
\* every running callback, dropping the flows they hold.
CallbackRunReadonly ==
    /\ Running
    /\ scopes # <<>>
    /\ LET st == run_readonly(Scoped, components, PLACEHOLDER)
       IN  /\ scopes' = IF st.panic = "none"
                        THEN WithScoped([Scoped EXCEPT !.graph = st.graph])
                        ELSE <<>>
           /\ outcome' = [RunOutcome("run_readonly", st) EXCEPT
                            !.label = Last(scopes).label]
    /\ UNCHANGED <<flow, flows, others>>

\* The innermost callback returns: the flow is inserted back and
\* try_flow_scope returns Ok.
ScopeEnd ==
    /\ Running
    /\ scopes # <<>>
    /\ LET frame == Last(scopes)
           back == give_back(flows, frame.flow)
       IN  /\ flows' = back.flows
           /\ scopes' = Front(scopes)
           /\ outcome' = [NoOutcome EXCEPT
                    !.op = frame.op, !.label = frame.label, !.phase = "returned",
                    !.changed = frame.changed,
                    !.warned = back.old,
                    !.lost = back.lost]
    /\ UNCHANGED <<flow, others>>

\* Config sequences given to the flows of the world: tuples of constant
\* evaluators, labelled or not.
WorldConfigs ==
    [n \in 1..MaxWorldNodes |->
        {f \in Forests(n, {1}, {"L1", NoLabel}) : Len(f) = n}]

NextWorld ==
    \/ \E label \in {"F"} : \E n \in 1..(MaxWorldNodes - WorldNodes) :
            \E configs \in WorldConfigs[n] : WorldAddNodes(label, configs)
    \/ \E op \in {"try_flow_scope", "flow_scope"} : \E label \in FlowLabels :
            CallScope(op, label)
    \/ \E op \in {"try_run_flow", "run_flow"} : \E label \in FlowLabels :
            CallRun(op, label)
    \/ \E n \in 1..(MaxWorldNodes - WorldNodes) : \E configs \in WorldConfigs[n] :
            CallbackAddNodes(configs)
    \/ CallbackInitialize
    \/ CallbackRun
    \/ CallbackRunReadonly
    \/ ScopeEnd

SpecWorld == Init /\ [][NextWorld]_vars

----------------------------------------------------------------------------
(* The batch drivers: run_entity_flows (src/src/command.rs) and               *)
(* run_all_entity_flows (src/src/component.rs).  Both hold the world          *)
(* exclusively while they run.                                                *)

\* Number of entities carrying a flow label.
NumEntities == 2

Entities == 1..NumEntities

\* The components of a new entity: the assigned flow, the default (empty)
\* ComputedScores, and a scoreable component.
NewEntity(e, label) ==
    [flow |-> label, scores |-> EmptyMap, value |-> Score_new(e)]

\* No driver is running.
DriverIdle == driver.phase \in {"idle", "done"}

\* The (entity, flow label) pairs of the query, in entity order.
EntityFlows(world) == [e \in DOMAIN world |-> [entity |-> e, flow |-> world[e].flow]]

\* world.add_nodes("F", configs) between two batches.
BatchAddNodes(configs) ==
    /\ DriverIdle
    /\ \A c \in Range(configs) :
            ~(Registered(flows, "F") /\ c.label \in DOMAIN flows.inner["F"].graph.labels)
    /\ WorldAddNodes("F", configs)

\* An entity is given another flow label between two batches.
InsertEntityFlow(e, label) ==
    /\ Running
    /\ DriverIdle
    /\ components[e].flow # label
    /\ components' = [components EXCEPT ![e].flow = label]
    /\ UNCHANGED <<flow, outcome, flows, scopes, jobs, calc, driver>>

\* The phase run_entity_flows is in once `rest` is what is left of its loop.
PhaseAfter(rest, phase) == IF rest = <<>> THEN "done" ELSE phase

\* run_entity_flows up to its loop: the query's pairs are collected.
StartEntityFlows ==
    /\ Running
    /\ DriverIdle
    /\ driver' = [NoDriver EXCEPT
            !.op = "run_entity_flows",
            !.phase = PhaseAfter(EntityFlows(components), "loop"),
            !.pending = EntityFlows(components),
            !.before = [e \in DOMAIN components |-> components[e].scores]]
    /\ UNCHANGED <<flow, outcome, flows, scopes, components, jobs, calc>>

\* Faulty variant: the first error ends the loop.
run_entity_flows_step_abort(d, fs, world) ==
    LET item == Head(d.pending)
        t == take(fs, item.flow)
    IN  IF t.some
        THEN LET st == run(t.flow, world, item.entity)
                 back == give_back(t.flows, [t.flow EXCEPT !.graph = st.graph])
             IN  [driver |-> [d EXCEPT !.pending = Tail(@),
                                       !.phase = PhaseAfter(Tail(d.pending), "loop"),
                                       !.ran = @ \cup {item.entity}],
                  flows |-> back.flows, panic |-> st.panic]
        ELSE [driver |-> [d EXCEPT !.pending = <<>>,
                                   !.phase = "done",
                                   !.failed = @ \cup {item.entity}],
              flows |-> t.flows, panic |-> "none"]

\* One iteration of the loop of run_entity_flows: try_run_flow for the next
\* pair; an error is logged and the loop goes on.  The scores try_run_flow
\* returns are dropped.
run_entity_flows_step(d, fs, world) ==
    LET item == Head(d.pending)
        t == take(fs, item.flow)
    IN  IF t.some
        THEN LET st == run(t.flow, world, item.entity)
                 back == give_back(t.flows, [t.flow EXCEPT !.graph = st.graph])
             IN  [driver |-> [d EXCEPT !.pending = Tail(@),
                                       !.phase = PhaseAfter(Tail(d.pending), "loop"),
                                       !.ran = @ \cup {item.entity}],
                  flows |-> back.flows, panic |-> st.panic]
        ELSE [driver |-> [d EXCEPT !.pending = Tail(@),
                                   !.phase = PhaseAfter(Tail(d.pending), "loop"),
                                   !.failed = @ \cup {item.entity}],
              flows |-> t.flows, panic |-> "none"]

EntityFlowsStep ==
    /\ Running
    /\ driver.op = "run_entity_flows" /\ driver.phase = "loop"
    /\ LET r == run_entity_flows_step(driver, flows, components)
       IN  /\ driver' = r.driver
           /\ flows' = r.flows
           /\ outcome' = [outcome EXCEPT !.panic = r.panic]
    /\ UNCHANGED <<flow, scopes, components, jobs, calc>>

\* run_all_entity_flows up to its first loop: the set of the assigned labels
\* is collected.
StartAllEntityFlows ==
    /\ Running
    /\ DriverIdle
    /\ driver' = [NoDriver EXCEPT
            !.op = "run_all_entity_flows",
            !.phase = "initialize",
            !.labels = {components[e].flow : e \in DOMAIN components},
            !.before = [e \in DOMAIN components |-> components[e].scores]]
    /\ UNCHANGED <<flow, outcome, flows, scopes, components, jobs, calc>>

\* One iteration of the first loop of run_all_entity_flows, the labels being
\* taken in any order: try_flow_scope(label, |world, flow| flow.initialize(world))
\* with the error dropped.  After the last label the parallel loop starts.
AllInitializeStep(label) ==
    /\ Running
    /\ driver.op = "run_all_entity_flows" /\ driver.phase = "initialize"
    /\ label \in driver.labels
    /\ LET t == take(flows, label)
       IN  flows' = IF t.some THEN give_back(t.flows, initialize(t.flow)).flows
                    ELSE t.flows
    /\ driver' = [driver EXCEPT
            !.labels = @ \ {label},
            !.phase = IF driver.labels = {label} THEN "parallel" ELSE @,
            !.parallel = IF driver.labels = {label}
                         THEN Range(EntityFlows(components)) ELSE @]
    /\ UNCHANGED <<flow, outcome, scopes, components, jobs, calc>>

\* world.get_flow(label): the flow the registry holds under the label, if any.
World_get_flow(fs, label) ==
    [some |-> Registered(fs, label),
     flow |-> IF Registered(fs, label) THEN fs.inner[label] ELSE Flow_new(label)]

\* The body of the parallel loop of run_all_entity_flows for one pair, the
\* pairs being taken in any order: without a flow the pair is skipped,
\* otherwise the flow is run for the entity and the scores are queued.
AllParallelStep(item) ==
    /\ Running
    /\ driver.op = "run_all_entity_flows" /\ driver.phase = "parallel"
    /\ item \in driver.parallel
    /\ LET got == World_get_flow(flows, item.flow)
           rest == driver.parallel \ {item}
           phase == IF rest = {} THEN "write_back" ELSE "parallel"
       IN  IF got.some
           THEN LET st == run_readonly(got.flow, components, item.entity)
                IN  /\ flows' = [flows EXCEPT !.inner[item.flow].graph = st.graph]
                    /\ outcome' = [outcome EXCEPT !.panic = st.panic]
                    /\ driver' = [driver EXCEPT
                            !.parallel = rest, !.phase = phase,
                            !.ran = @ \cup {item.entity},
                            !.queue = MapInsert(@, item.entity, st.labeled_scores)]
           ELSE /\ flows' = flows
                /\ outcome' = outcome
                /\ driver' = [driver EXCEPT
                            !.parallel = rest, !.phase = phase,
                            !.failed = @ \cup {item.entity}]
    /\ UNCHANGED <<flow, scopes, components, jobs, calc>>

\* The last loop of run_all_entity_flows: a command inserting
\* ComputedScores(scores) is queued for every queued pair; the commands are
\* applied when the driver has returned.
AllWriteBack ==
    /\ Running
    /\ driver.op = "run_all_entity_flows" /\ driver.phase = "write_back"
    /\ components' = [e \in DOMAIN components |->
            IF e \in DOMAIN driver.queue
            THEN [components[e] EXCEPT !.scores = driver.queue[e]]
            ELSE components[e]]
    /\ driver' = [driver EXCEPT !.phase = "done", !.queue = EmptyMap]
    /\ UNCHANGED <<flow, outcome, flows, scopes, jobs, calc>>

InitBatch ==
    /\ flow = Flow_new(TestFlow)
    /\ outcome = NoOutcome
    /\ flows = NoFlows
    /\ scopes = <<>>
    /\ components = [e \in Entities |-> NewEntity(e, "F")]
    /\ jobs = NoJobs
    /\ calc = NoCalc
    /\ driver = NoDriver

NextBatch ==
    \/ \E configs \in
            {<<TargetConfig("L1")>>,
             <<AggregatorConfig(Score_MIN,
                    <<TargetConfig(NoLabel), EvaluatorConfig(1, NoLabel)>>, "L2")>>} :
          BatchAddNodes(configs)
    \/ \E e \in Entities : \E label \in FlowLabels : InsertEntityFlow(e, label)
    \/ StartEntityFlows
    \/ EntityFlowsStep
    \/ StartAllEntityFlows
    \/ \E label \in FlowLabels : AllInitializeStep(label)
    \/ \E e \in Entities : \E label \in FlowLabels :
            AllParallelStep([entity |-> e, flow |-> label])
    \/ AllWriteBack

SpecBatch == InitBatch /\ [][NextBatch]_vars

----------------------------------------------------------------------------
(* Calls of run_readonly on one initialized flow for different targets,       *)
(* interleaved at the iterations of their loops.                              *)

\* Largest number of nodes of the flow that is run for several targets.
MaxParallelNodes == 3

\* Config trees of unlabelled target and constant evaluators under labelled
\* sum aggregators with and without a threshold, by number of nodes.
RECURSIVE ParallelTrees(_), ParallelForests(_)
ParallelTrees(n) ==
    IF n = 1
    THEN {TargetConfig(NoLabel), EvaluatorConfig(1, NoLabel)}
    ELSE {AggregatorConfig(t, cs, l) :
            t \in {Score_MIN, 2}, cs \in ParallelForests(n - 1), l \in {"L1", "L2"}}

ParallelForests(n) ==
    IF n = 0 THEN {<<>>}
    ELSE UNION {{<<t>> \o f : t \in ParallelTrees(k), f \in ParallelForests(n - k)} :
                    k \in 1..n}

\* Faulty variant: one buffer map, kept with the flow, serves every call.
buffer_of_flow(target) == PLACEHOLDER

\* The buffer map a call uses: `aggregator_child_scores` is a local of
\* run_readonly, so each call has its own.
buffer_of(target) == target

\* run_readonly(world, target) up to its loop: the assertion and the locals.
JobStart(target) ==
    /\ Running
    /\ target \notin DOMAIN jobs.runs
    /\ LET locals == run_start(flow, components, target)
           start == IF is_initialized(flow.graph) THEN locals
                    ELSE [locals EXCEPT !.panic = "flow was not initialized before running"]
       IN  jobs' = [runs |-> MapInsert(jobs.runs, target,
                                [pos |-> 1, st |-> [start EXCEPT !.graph = FlowGraph_default,
                                                                 !.world = NoComponents]]),
                    cells |-> MapInsert(jobs.cells, buffer_of(target),
                                        [aggregator_child_scores |-> EmptyMap,
                                         child_sources |-> EmptyMap])]
    /\ UNCHANGED <<flow, outcome, flows, scopes, components, calc, driver>>

\* One iteration of the loop of the call for `target`.
JobStep(target) ==
    /\ Running
    /\ target \in DOMAIN jobs.runs
    /\ jobs.runs[target].st.panic = "none"
    /\ jobs.runs[target].pos <= Len(flow.graph.dependency_toposort)
    /\ LET job == jobs.runs[target]
           cell == jobs.cells[buffer_of(target)]
           next == run_step(job.pos,
                        [job.st EXCEPT
                            !.graph = flow.graph,
                            !.world = components,
                            !.aggregator_child_scores = cell.aggregator_child_scores,
                            !.child_sources = cell.child_sources])
       IN  jobs' = [runs |-> [jobs.runs EXCEPT ![target] =
                        [pos |-> job.pos + 1,
                         st |-> [next EXCEPT !.graph = FlowGraph_default,
                                             !.world = NoComponents,
                                             !.aggregator_child_scores = EmptyMap,
                                             !.child_sources = EmptyMap]]],
                    cells |-> [jobs.cells EXCEPT ![buffer_of(target)] =
                        [aggregator_child_scores |-> next.aggregator_child_scores,
                         child_sources |-> next.child_sources]]]
    /\ UNCHANGED <<flow, outcome, flows, scopes, components, calc, driver>>

\* The call for `target` has returned.
JobReturned(target) ==
    /\ target \in DOMAIN jobs.runs
    /\ jobs.runs[target].st.panic = "none"
    /\ jobs.runs[target].pos > Len(flow.graph.dependency_toposort)

InitParallel ==
    /\ flow \in UNION {{initialize(add_nodes(Flow_new(TestFlow), configs)) :
                            configs \in ParallelForests(n)} :
                        n \in 1..MaxParallelNodes}
    /\ outcome = NoOutcome
    /\ flows = NoFlows
    /\ scopes = <<>>
    /\ components = [e \in Entities |-> NewEntity(e, "F")]
    /\ jobs = NoJobs
    /\ calc = NoCalc
    /\ driver = NoDriver

NextParallel ==
    \/ \E target \in Entities : JobStart(target)
    \/ \E target \in Entities : JobStep(target)

SpecParallel == InitParallel /\ [][NextParallel]_vars

----------------------------------------------------------------------------
(* Single calls of the operations of Score, of the aggregators and of their  *)
(* wrappers, on every operand                                                *)

\* Longest sequence of scores handed to a reduction or to an aggregator.
MaxScores == 2

\* Every Score.
Scores == Score_MIN..Score_MAX

\* The sequences over S of length up to n.
SeqsUpTo(S, n) == UNION {[1..k -> S] : k \in 0..n}

\* sum(t), product(t), maximum(t), minimum(t), median(t) and the two means
\* of mean.rs take a threshold, the three aggregators of average.rs none.
BaseAggregators ==
    {[node |-> node, threshold |-> threshold] :
        node \in {"sum", "product", "maximum", "minimum", "median",
                  "mean::geometric_mean", "mean::harmonic_mean"},
        threshold \in Scores}
    \cup {[node |-> node] : node \in {"average", "geometric_mean", "harmonic_mean"}}

\* An aggregator, bare or wrapped once by threshold(t), input_threshold(t)
\* or curve_input(c).  The curves are FunctionCurve::new(domain, |x|
\* Score::new(x * 2.)) and FunctionCurve::new(domain, |x| Score::new(1. - x))
\* over Score::INTERVAL and over two narrower domains: a score outside the
\* domain cannot be sampled.
Aggregators ==
    BaseAggregators
    \cup {[node |-> node, threshold |-> threshold, aggregator |-> aggregator] :
            node \in {"threshold", "input_threshold"}, threshold \in Scores,
            aggregator \in BaseAggregators}
    \cup {[node |-> "curve_input", curve |-> [domain |-> domain, f |-> f],
           aggregator |-> aggregator] :
            domain \in {<<Score_MIN, Score_MAX>>, <<2, Score_MAX>>, <<1, 2>>},
            f \in {[x \in Scores |-> Score_new(f32_mul(x, f32_of(2)))],
                   [x \in Scores |-> Score_new(f32_add(f32_of(1), f32_neg(x)))]},
            aggregator \in BaseAggregators}

\* The calls: a construction from an f32, an operator between two Scores or
\* between a Score and an f32, a reduction of a sequence of Scores, an
\* aggregator on some children scores, and constant(v).threshold(t) or
\* target::<C>().threshold(t).
ScoreCalls ==
    {[NoCalc EXCEPT !.op = op, !.b = b] : op \in {"new", "from"}, b \in F32}
    \cup {[NoCalc EXCEPT !.op = "set", !.a = a, !.b = b] : a \in Scores, b \in F32}
    \cup {[NoCalc EXCEPT !.op = op, !.a = a, !.b = b] :
                op \in {"add", "sub", "mul", "div"}, a \in Scores, b \in Scores}
    \cup {[NoCalc EXCEPT !.op = op, !.a = a, !.b = b] :
                op \in {"add_f32", "sub_f32", "mul_f32", "div_f32"},
                a \in Scores, b \in F32}
    \cup {[NoCalc EXCEPT !.op = op, !.scores = scores] :
                op \in {"sum", "product"}, scores \in SeqsUpTo(Scores, MaxScores)}
    \cup {[NoCalc EXCEPT !.op = "aggregate", !.self = self, !.scores = scores] :
                self \in Aggregators, scores \in SeqsUpTo(Scores, MaxScores)}
    \cup {[NoCalc EXCEPT !.op = "evaluate",
                         !.self = [node |-> "threshold", threshold |-> threshold,
                                   evaluator |-> evaluator]] :
                threshold \in Scores,
                evaluator \in {[node |-> "constant", param |-> v] : v \in Scores}
                               \cup {[node |-> "target", param |-> Score_MIN]}}

\* Score::new(b), Score::from(b), which is Score::new(b), and a.set(b)
ScoreConstruct ==
    /\ ~calc.done
    /\ calc.op \in {"new", "from", "set"}
    /\ calc' = [calc EXCEPT !.done = TRUE, !.result =
               IF calc.op = "set" THEN Score_set(calc.a, calc.b)
               ELSE Score_new(calc.b)]
    /\ UNCHANGED <<flow, outcome, flows, scopes, components, jobs, driver>>

\* a + b, a - b, a * b and a / b, for a Score or an f32 b
ScoreOperator ==
    /\ ~calc.done
    /\ calc.op \in {"add", "sub", "mul", "div",
                     "add_f32", "sub_f32", "mul_f32", "div_f32"}
    /\ calc' = [calc EXCEPT !.done = TRUE, !.result =
               CASE calc.op \in {"add", "add_f32"} -> Score_add(calc.a, calc.b)
               [] calc.op \in {"sub", "sub_f32"} -> Score_sub(calc.a, calc.b)
               [] calc.op \in {"mul", "mul_f32"} -> Score_mul(calc.a, calc.b)
               [] calc.op \in {"div", "div_f32"} -> Score_div(calc.a, calc.b)]
    /\ UNCHANGED <<flow, outcome, flows, scopes, components, jobs, driver>>

\* scores.into_iter().sum() and scores.into_iter().product()
ScoreReduce ==
    /\ ~calc.done
    /\ calc.op \in {"sum", "product"}
    /\ calc' = [calc EXCEPT !.done = TRUE, !.result =
               IF calc.op = "sum" THEN Score_sum(calc.scores)
               ELSE Score_product(calc.scores)]
    /\ UNCHANGED <<flow, outcome, flows, scopes, components, jobs, driver>>

\* aggregator.aggregate(AggregationCtx { world, aggregation: Aggregation {
\* target: Entity::PLACEHOLDER, scores } })
Aggregate ==
    /\ ~calc.done
    /\ calc.op = "aggregate"
    /\ LET out == Aggregator_aggregate(calc.self, calc.scores)
       IN  calc' = [calc EXCEPT !.done = TRUE, !.result = out.score,
                                !.passed = out.passed]
    /\ UNCHANGED <<flow, outcome, flows, scopes, components, jobs, driver>>

\* evaluator.evaluate(EvaluationCtx { world, evaluation: Evaluation {
\* target: Entity::PLACEHOLDER } })
Evaluate ==
    /\ ~calc.done
    /\ calc.op = "evaluate"
    /\ calc' = [calc EXCEPT !.done = TRUE, !.result =
               OutputThresholdEvaluator_evaluate(calc.self, components, PLACEHOLDER)]
    /\ UNCHANGED <<flow, outcome, flows, scopes, components, jobs, driver>>

InitScore ==
    /\ flow = Flow_new(TestFlow)
    /\ outcome = NoOutcome
    /\ flows = NoFlows
    /\ scopes = <<>>
    /\ components = NoComponents
    /\ jobs = NoJobs
    /\ calc \in ScoreCalls
    /\ driver = NoDriver

NextScore ==
    \/ ScoreConstruct
    \/ ScoreOperator
    \/ ScoreReduce
    \/ Aggregate
    \/ Evaluate

SpecScore == InitScore /\ [][NextScore]_vars

----------------------------------------------------------------------------
(* Flows built from one config made with the combinators difference and map, *)
(* direct calls of the difference aggregator, and add_nodes of unlabelled    *)
(* aggregator configs with labelled descendants.                             *)

\* A flow is empty and the difference aggregator is about to be called on
\* up to one score more than the other aggregators, or nothing is called.
InitCombinators ==
    /\ flow = Flow_new(TestFlow)
    /\ outcome = NoOutcome
    /\ flows = NoFlows
    /\ scopes = <<>>
    /\ components = NoComponents
    /\ jobs = NoJobs
    /\ calc \in {NoCalc} \cup
                {[NoCalc EXCEPT !.op = "aggregate", !.self = [node |-> "difference"],
                                !.scores = scores] :
                    scores \in SeqsUpTo(Scores, MaxScores + 1)}
    /\ driver = NoDriver

\* The flow gets one labelled config: a.difference(b), for a and b a constant,
\* a mapped constant or a sum of two constants; or a mapped constant; or a
\* mapped sum of a constant.  A flow without aggregators may be given an
\* unlabelled aggregator config whose descendants carry the label L2, alone
\* or next to a constant labelled L1; no other config carries L2.  The flow
\* is initialized and run.
NextCombinators ==
    \/ /\ NodeCount(flow) = 0
       /\ calc = NoCalc
       /\ LET operands ==
                {EvaluatorConfig(v, NoLabel) : v \in 1..3}
                \cup {[EvaluatorConfig(2, NoLabel) EXCEPT !.mapper = TRUE],
                      AggregatorConfig(Score_MIN,
                            <<EvaluatorConfig(1, NoLabel), EvaluatorConfig(2, NoLabel)>>,
                            NoLabel)}
          IN  \E config \in
                    {[kind |-> "Aggregator", node |-> "difference", param |-> Score_MIN,
                      mapper |-> FALSE, children |-> <<a, b>>, label |-> "L1"] :
                        a \in operands, b \in operands}
                    \cup {[EvaluatorConfig(v, "L1") EXCEPT !.mapper = TRUE] : v \in Values}
                    \cup {[AggregatorConfig(Score_MIN, <<EvaluatorConfig(v, NoLabel)>>, "L1")
                                EXCEPT !.mapper = TRUE] : v \in Values} :
                AddNodes(<<config>>)
    \/ /\ NodeCount(flow) <= 1
       /\ flow.graph.aggregators = <<>>
       /\ calc = NoCalc
       /\ \E children \in
                {<<EvaluatorConfig(1, "L2")>>,
                 <<EvaluatorConfig(1, NoLabel), EvaluatorConfig(2, "L2")>>,
                 <<AggregatorConfig(Score_MIN, <<EvaluatorConfig(1, "L2")>>, "L2")>>} :
            LET unlabelled == AggregatorConfig(Score_MIN, children, NoLabel)
            IN  \E configs \in
                    {<<unlabelled>>}
                    \cup {<<unlabelled, EvaluatorConfig(v, "L1")>> : v \in Values}
                    \cup {<<EvaluatorConfig(v, "L1"), unlabelled>> : v \in Values} :
                  AddNodes(configs)
    \/ Initialize
    \/ Run
    \/ RunReadonly
    \/ Aggregate

SpecCombinators == InitCombinators /\ [][NextCombinators]_vars

----------------------------------------------------------------------------
(* Vocabulary of the properties *)

\* All node ids of a graph's two arenas.
Nodes(graph) ==
    {Evaluator(i - 1) : i \in 1..Len(graph.evaluators)}
        \cup {Aggregator(i - 1) : i \in 1..Len(graph.aggregators)}

\* Position of x in the sequence s (0 when absent).
IndexOf(s, x) == IF x \in Range(s) THEN CHOOSE i \in 1..Len(s) : s[i] = x ELSE 0

\* Registration position of a node: its position in the dependency graph's
\* insertion-ordered node map.
RegPos(graph, n) == IndexOf(graph.dependency.nodes, n)

\* The direct children of a node.
ChildrenOf(graph, p) == {c \in Nodes(graph) : <<c, p>> \in Edges(graph.dependency)}

\* The last operation was a run (or run_readonly) that returned.
RunReturned == outcome.op \in {"run", "run_readonly"} /\ outcome.panic = "none"

----------------------------------------------------------------------------
(* C1..C3: ordering, checked under SpecOrder *)

\* C1: in the cached topological order every child node stands strictly before
\* its parent, and in every run that returned each node was evaluated after
\* all of its children.
C1_ChildrenBeforeParent ==
    LET graph == flow.graph
        topo == graph.dependency_toposort
    IN  /\ \A e \in Edges(graph.dependency) :
                /\ IndexOf(topo, e[1]) > 0
                /\ IndexOf(topo, e[1]) < IndexOf(topo, e[2])
        /\ RunReturned =>
                \A e \in Edges(graph.dependency) :
                    /\ IndexOf(outcome.order, e[1]) > 0
                    /\ IndexOf(outcome.order, e[1]) < IndexOf(outcome.order, e[2])

\* A run returned on a flow holding a chain of three nodes and a node with two
\* children.
C1_Witness ==
    /\ RunReturned
    /\ \E a, b, c \in Nodes(flow.graph) :
            {<<a, b>>, <<b, c>>} \subseteq Edges(flow.graph.dependency)
    /\ \E p \in Nodes(flow.graph) : Cardinality(ChildrenOf(flow.graph, p)) >= 2

\* C2: in a run_readonly that returned, every aggregator was handed exactly one
\* score per direct child, each the score that child produced in this run, and
\* no score of any other node.
C2_AggregatorGetsItsChildren ==
    (outcome.op = "run_readonly" /\ outcome.panic = "none") =>
        /\ DOMAIN outcome.received =
                {n \in Nodes(flow.graph) : n[1] = "Aggregator"}
        /\ \A a \in DOMAIN outcome.received :
            LET r == outcome.received[a]
            IN  /\ Len(r.scores) = Cardinality(ChildrenOf(flow.graph, a))
                /\ Len(r.sources) = Len(r.scores)
                /\ Range(r.sources) = ChildrenOf(flow.graph, a)
                /\ \A k \in 1..Len(r.scores) :
                        r.scores[k] = outcome.produced[r.sources[k]]

\* run_readonly returned on a flow where an aggregator with two children of
\* different scores sits next to another tree.
C2_Witness ==
    /\ outcome.op = "run_readonly" /\ outcome.panic = "none"
    /\ \E a \in DOMAIN outcome.received :
            /\ Len(outcome.received[a].scores) = 2
            /\ outcome.received[a].scores[1] # outcome.received[a].scores[2]
            /\ \E n \in Nodes(flow.graph) :
                    n # a /\ n \notin ChildrenOf(flow.graph, a)

\* C3: the scores an aggregator is handed are in the registration order of its
\* children.
C3_ChildrenInRegistrationOrder ==
    RunReturned =>
        \A a \in DOMAIN outcome.received :
            LET src == outcome.received[a].sources
            IN  \A i, j \in 1..Len(src) :
                    i < j => RegPos(flow.graph, src[i]) < RegPos(flow.graph, src[j])

\* A run returned where an aggregator has two children and the first of them
\* is an aggregator with a child of its own.
C3_Witness ==
    /\ RunReturned
    /\ \E a \in DOMAIN outcome.received :
            LET src == outcome.received[a].sources
            IN  /\ Len(src) >= 2
                /\ src[1][1] = "Aggregator"
                /\ ChildrenOf(flow.graph, src[1]) # {}

----------------------------------------------------------------------------
(* C4..C8: labels and lifecycle, checked under Spec *)

\* The children of p as a sequence in registration order.
RECURSIVE SortByRegPos(_, _)
SortByRegPos(graph, set) ==
    IF set = {} THEN <<>>
    ELSE LET first == CHOOSE n \in set :
                        \A m \in set : RegPos(graph, n) <= RegPos(graph, m)
         IN  <<first>> \o SortByRegPos(graph, set \ {first})

\* The score a node yields, from the registered tree alone: an evaluator its
\* constant, an aggregator the thresholded sum of its children's scores.
RECURSIVE NodeScore(_, _)
NodeScore(graph, n) ==
    IF n[1] = "Evaluator" THEN NodeAt(graph, n).param
    ELSE LET cs == SortByRegPos(graph, ChildrenOf(graph, n))
         IN  SumAggregator_aggregate(NodeAt(graph, n).param,
                [k \in 1..Len(cs) |-> NodeScore(graph, cs[k])])

\* C4: a run that returned yields a map whose keys are exactly the labels bound
\* in the flow, each mapped to the score of the node the label is bound to.
C4_RunReturnsBoundLabels ==
    RunReturned =>
        /\ DOMAIN outcome.labeled_scores = DOMAIN flow.graph.labels
        /\ \A l \in DOMAIN flow.graph.labels :
                /\ outcome.labeled_scores[l] = outcome.produced[flow.graph.labels[l]]
                /\ outcome.labeled_scores[l] = NodeScore(flow.graph, flow.graph.labels[l])

\* A run returned two labels with different scores, one bound to an aggregator,
\* from a flow that also holds an unlabelled node.
C4_Witness ==
    /\ RunReturned
    /\ DOMAIN outcome.labeled_scores = ScoreLabels
    /\ outcome.labeled_scores["L1"] # outcome.labeled_scores["L2"]
    /\ \E l \in ScoreLabels : flow.graph.labels[l][1] = "Aggregator"
    /\ \E n \in Nodes(flow.graph) : n \notin DOMAIN flow.graph.labeled

\* C5: run_readonly panics exactly when some registered node has not been
\* initialized; right after initialize it does not panic; and initialize on a
\* flow with an empty queue changes nothing (no node's initialize is called).
C5_UninitializedRunPanics ==
    [][ /\ outcome'.op = "run_readonly" =>
                (outcome'.panic = "flow was not initialized before running"
                    <=> \E n \in Nodes(flow.graph) : NodeAt(flow.graph, n).inits = 0)
        /\ (outcome.op = "initialize" /\ outcome'.op = "run_readonly") =>
                outcome'.panic = "none"
        /\ (outcome'.op = "initialize" /\ flow.graph.uninitialized = <<>>) =>
                flow' = flow
      ]_vars

\* run_readonly panicked on a flow of which some nodes were initialized and
\* some were not.
C5_Witness ==
    /\ outcome.op = "run_readonly"
    /\ outcome.panic = "flow was not initialized before running"
    /\ \E n \in Nodes(flow.graph) : NodeAt(flow.graph, n).inits = 1
    /\ \E n \in Nodes(flow.graph) : NodeAt(flow.graph, n).inits = 0

\* C6: no node's initialize is called twice; a node is queued as uninitialized
\* exactly while its initialize has not been called; and a node that was
\* evaluated had been initialized before its first evaluation.
C6_InitializedOnceBeforeEvaluation ==
    \A n \in Nodes(flow.graph) :
        LET obj == NodeAt(flow.graph, n)
        IN  /\ obj.inits <= 1
            /\ (n \in Range(flow.graph.uninitialized)) <=> (obj.inits = 0)
            /\ obj.evaluated => (obj.inits = 1 /\ ~obj.early)

\* initialize ran on a flow that holds a node evaluated earlier and a node
\* added after that evaluation.
C6_Witness ==
    /\ outcome.op = "initialize"
    /\ \E n, m \in Nodes(flow.graph) :
            /\ NodeAt(flow.graph, n).evaluated
            /\ ~NodeAt(flow.graph, m).evaluated
            /\ NodeAt(flow.graph, m).inits = 1

\* The nodes whose config carried label l.
Carrying(graph, l) == {n \in Nodes(graph) : NodeAt(graph, n).config_label = l}

\* C7: a label stays bound to the first node registered with it; nodes
\* registered with it later are registered all the same, are evaluated by
\* every run and feed their parent, and a run returns under the label the
\* score of the first node.
C7_FirstBindingKept ==
    \A l \in ScoreLabels :
        Carrying(flow.graph, l) # {} =>
            LET first == SortByRegPos(flow.graph, Carrying(flow.graph, l))[1]
            IN  /\ l \in DOMAIN flow.graph.labels
                /\ flow.graph.labels[l] = first
                /\ \A n \in Nodes(flow.graph) :
                        (n \in DOMAIN flow.graph.labeled /\ flow.graph.labeled[n] = l)
                            <=> n = first
                /\ RunReturned =>
                    /\ outcome.labeled_scores[l] = outcome.produced[first]
                    /\ \A n \in Carrying(flow.graph, l) :
                        /\ n \in Range(outcome.order)
                        /\ \A p \in Nodes(flow.graph) :
                                n \in ChildrenOf(flow.graph, p) =>
                                    n \in Range(outcome.received[p].sources)

\* A run returned on a flow where a later node carries the label of an earlier
\* one, has a parent, and produced a different score than the earlier one.
C7_Witness ==
    /\ RunReturned
    /\ \E l \in ScoreLabels : \E n, m \in Carrying(flow.graph, l) :
            /\ RegPos(flow.graph, n) < RegPos(flow.graph, m)
            /\ outcome.produced[n] # outcome.produced[m]
            /\ \E p \in Nodes(flow.graph) : m \in ChildrenOf(flow.graph, p)

\* C8: add_nodes registers exactly the top-level configs that carry a label:
\* a call whose top-level configs all lack a label leaves the flow as it was,
\* and otherwise the flow is what registering only the labelled configs gives.
C8_UnlabeledTopLevelIgnored ==
    [][ outcome'.op = "add_nodes" =>
            /\ outcome'.kept = <<>> => flow' = flow
            /\ NodeCount(flow') = NodeCount(flow) + ConfigSize(outcome'.kept)
            /\ flow' = add_nodes(flow, outcome'.kept)
      ]_vars

\* add_nodes was called on a non-empty flow with an unlabelled top-level config
\* next to a labelled one.
C8_Witness ==
    /\ outcome.op = "add_nodes"
    /\ outcome.skipped > 0
    /\ outcome.kept # <<>>
    /\ NodeCount(flow) > ConfigSize(outcome.kept)

----------------------------------------------------------------------------
(* C9, C10: the registry and scoped access, checked under SpecWorld *)

\* The step is a call of one of the scope methods (not the return from a
\* callback).
IsCall ==
    /\ outcome'.op \in {"try_flow_scope", "flow_scope", "try_run_flow", "run_flow"}
    /\ outcome'.phase # "returned"

\* C9: try_run_flow / try_flow_scope with a label the registry does not hold
\* (or with no registry) return TryRunFlowError carrying that label, start no
\* callback and change neither the registry nor anything else; run_flow /
\* flow_scope panic there.
C9_MissingFlowIsAnError ==
    [][ (IsCall /\ ~Registered(flows, outcome'.label)) =>
            IF outcome'.op \in {"try_flow_scope", "try_run_flow"}
            THEN /\ outcome'.error = outcome'.label
                 /\ outcome'.panic = "none"
                 /\ outcome'.phase = "done"
                 /\ outcome'.order = <<>>
                 /\ flows' = flows
                 /\ scopes' = scopes
                 /\ flow' = flow
            ELSE outcome'.panic = "The flow with the label was not found."
      ]_vars

\* try_flow_scope returned the error for a label the existing registry, which
\* holds another flow, does not hold.
C9_Witness ==
    /\ outcome.op = "try_flow_scope"
    /\ outcome.error = "G"
    /\ outcome.label = "G"
    /\ flows.exists
    /\ Registered(flows, "F")

\* C10 as stated: whenever a callback runs, the registry holds no flow under
\* its label, so every call of a scope method on that label from inside the
\* callback fails; and when the scope returns, the registry holds the flow the
\* callback worked on.
C10_AbsentWhileScoped ==
    [][ /\ \A k \in 1..Len(scopes') : ~Registered(flows', scopes'[k].label)
        /\ (IsCall /\ \E k \in 1..Len(scopes) : scopes[k].label = outcome'.label) =>
                outcome'.error = outcome'.label
        /\ outcome'.phase = "returned" =>
                /\ Registered(flows', outcome'.label)
                /\ flows'.inner[outcome'.label] = Last(scopes).flow
      ]_vars

\* C10 amended: the flow leaves the registry when the callback starts; from
\* then on the registry holds no flow under that label until a flow is created
\* or inserted under it (world.add_nodes with that label, or the return of a
\* nested scope on it); while it holds none, a call of a scope method on that
\* label fails; and when the scope returns, the registry holds under the label
\* the flow as the callback left it.
C10_AbsentUntilInserted ==
    [][ /\ outcome'.phase = "callback" =>
                /\ Registered(flows, outcome'.label)
                /\ ~Registered(flows', outcome'.label)
                /\ scopes' = Append(scopes,
                        [op |-> outcome'.op, label |-> outcome'.label,
                         flow |-> flows.inner[outcome'.label], changed |-> FALSE])
        /\ \A k \in 1..Len(scopes) :
                (/\ k <= Len(scopes')
                 /\ ~Registered(flows, scopes[k].label)
                 /\ Registered(flows', scopes[k].label)) =>
                    /\ outcome'.label = scopes[k].label
                    /\ \/ outcome'.op = "World::add_nodes"
                       \/ outcome'.phase = "returned"
        /\ (/\ IsCall
            /\ \E k \in 1..Len(scopes) : scopes[k].label = outcome'.label
            /\ ~Registered(flows, outcome'.label)) =>
                outcome'.error = outcome'.label
        /\ outcome'.phase = "returned" =>
                /\ scopes # <<>>
                /\ Last(scopes).label = outcome'.label
                /\ Registered(flows', outcome'.label)
                /\ flows'.inner[outcome'.label] = Last(scopes).flow
                /\ scopes' = Front(scopes)
      ]_vars

\* try_flow_scope returned Ok after a callback that changed the flow, and the
\* registry holds the flow with a node that was initialized and evaluated.
C10_Witness ==
    /\ outcome.op = "try_flow_scope"
    /\ outcome.phase = "returned"
    /\ outcome.changed
    /\ Registered(flows, outcome.label)
    /\ \E n \in Nodes(flows.inner[outcome.label].graph) :
            NodeAt(flows.inner[outcome.label].graph, n).evaluated

----------------------------------------------------------------------------
(* C11: a flow inserted while the label is scoped out *)

\* C11: when a scope returns while the registry holds a flow under the scoped
\* label (created or inserted during the callback), the return does not panic,
\* the registry then holds the scoped-out flow under the label and is otherwise
\* unchanged, and the flow found there, with all its nodes, is in the world no
\* more.
C11_ScopedFlowOverwrites ==
    [][ (outcome'.phase = "returned" /\ Registered(flows, outcome'.label)) =>
            /\ outcome'.panic = "none"
            /\ outcome'.error = "Ok"
            /\ outcome'.warned
            /\ flows'.exists
            /\ flows'.inner = MapInsert(flows.inner, outcome'.label, Last(scopes).flow)
            /\ outcome'.lost = NodeCount(flows.inner[outcome'.label])
            /\ WorldNodes' = WorldNodes - outcome'.lost
      ]_vars

\* try_flow_scope returned after its callback had called world.add_nodes with
\* the scoped label: the flow created by that call held a node and is replaced
\* by the scoped-out flow, which differs from it.
C11_Witness ==
    /\ outcome.op = "try_flow_scope"
    /\ outcome.phase = "returned"
    /\ outcome.warned
    /\ outcome.lost > 0
    /\ Registered(flows, outcome.label)
    /\ NodeCount(flows.inner[outcome.label]) > 0
    /\ flows.inner[outcome.label].graph.uninitialized = <<>>

----------------------------------------------------------------------------
(* C12: the batch drivers, checked under SpecBatch *)

\* The entities whose assigned flow label the registry does not hold.
Unassignable == {e \in DOMAIN components : ~Registered(flows, components[e].flow)}

\* C12: no step of a batch driver panics; when a driver returns, it has
\* skipped exactly the entities whose flow label the registry lacks and has run
\* the flow of every other entity, whose scores run_all_entity_flows has
\* stored; and at every step the ComputedScores of every skipped entity are
\* what they were when the driver started.
C12_FailingSubjectSkipped ==
    [][ driver' # driver =>
            /\ outcome'.panic = "none"
            /\ \A e \in driver'.failed : components'[e].scores = driver'.before[e]
            /\ driver'.phase = "done" =>
                    /\ driver'.failed = Unassignable'
                    /\ driver'.ran = DOMAIN components \ Unassignable'
                    /\ driver'.op = "run_all_entity_flows" =>
                            \A e \in driver'.ran :
                                components'[e].scores =
                                    run_readonly(flows'.inner[components'[e].flow],
                                                 components', e).labeled_scores
      ]_vars

\* run_all_entity_flows returned after skipping an entity that holds scores
\* of an earlier batch and after storing other scores for another entity.
C12_Witness ==
    /\ driver.op = "run_all_entity_flows"
    /\ driver.phase = "done"
    /\ \E e \in driver.failed, o \in driver.ran :
            /\ components[e].scores # EmptyMap
            /\ components[o].scores # driver.before[o]
            /\ components[o].scores # components[e].scores

----------------------------------------------------------------------------
(* C13: the frame of run_readonly, checked under Spec *)

\* What a flow graph is made of, leaving out what is only recorded about its
\* nodes' evaluations: the nodes of both arenas, the label bindings in both
\* directions, the dependency graph, the cached order and the queue.
Structure(graph) ==
    [evaluators |-> [i \in 1..Len(graph.evaluators) |->
            [node |-> graph.evaluators[i].node, param |-> graph.evaluators[i].param,
             inits |-> graph.evaluators[i].inits]],
     aggregators |-> [i \in 1..Len(graph.aggregators) |->
            [node |-> graph.aggregators[i].node, param |-> graph.aggregators[i].param,
             inits |-> graph.aggregators[i].inits]],
     labeled |-> graph.labeled, labels |-> graph.labels,
     dependency |-> graph.dependency,
     dependency_toposort |-> graph.dependency_toposort,
     uninitialized |-> graph.uninitialized]

\* C13: a call of run_readonly leaves the nodes of both arenas, both label
\* maps, the dependency graph, the cached topological order and the
\* uninitialized queue as they were; the queue is empty when the call returns.
C13_RunReadonlyKeepsStructure ==
    [][ outcome'.op = "run_readonly" =>
            /\ Structure(flow'.graph) = Structure(flow.graph)
            /\ flow'.label = flow.label
            /\ outcome'.panic = "none" => flow'.graph.uninitialized = <<>>
      ]_vars

\* run_readonly returned on a flow with an aggregator, two bound labels and an
\* unlabelled node, all evaluated by it.
C13_Witness ==
    /\ outcome.op = "run_readonly"
    /\ outcome.panic = "none"
    /\ Len(flow.graph.aggregators) > 0
    /\ Cardinality(DOMAIN flow.graph.labels) = 2
    /\ Len(outcome.order) = 3
    /\ outcome.order = flow.graph.dependency_toposort

----------------------------------------------------------------------------
(* C14: interleaved evaluations for different targets, checked under         *)
(* SpecParallel                                                                *)

\* C14: however the iterations of the calls for different targets interleave,
\* no call panics, every score a call has produced or handed to an aggregator
\* so far is the score the call for that target alone produces or hands over
\* there, and a call that returned yields the map the call alone yields.
C14_InterleavedRunsAgree ==
    \A target \in DOMAIN jobs.runs :
        LET st == jobs.runs[target].st
            alone == run_readonly(flow, components, target)
        IN  /\ st.panic = "none"
            /\ \A n \in DOMAIN st.produced : st.produced[n] = alone.produced[n]
            /\ \A a \in DOMAIN st.received :
                    st.received[a].scores = alone.received[a].scores
            /\ JobReturned(target) =>
                    /\ st.labeled_scores = alone.labeled_scores
                    /\ st.order = alone.order

\* Two calls are under way at the same time, the buffers of both hold child
\* scores for the same aggregator, these differ, and so do the maps the two
\* targets are due.
C14_Witness ==
    \E t, u \in DOMAIN jobs.runs :
        /\ t # u
        /\ ~JobReturned(t) /\ ~JobReturned(u)
        /\ \E a \in DOMAIN jobs.cells[t].aggregator_child_scores :
                /\ a \in DOMAIN jobs.cells[u].aggregator_child_scores
                /\ jobs.cells[t].aggregator_child_scores[a]
                        # jobs.cells[u].aggregator_child_scores[a]
        /\ run_readonly(flow, components, t).labeled_scores
                # run_readonly(flow, components, u).labeled_scores

----------------------------------------------------------------------------
(* C15: the range of Score, checked under SpecScore *)

\* C15: whatever a construction, an operator or a reduction returns is a Score
\* between MIN and MAX, unless the call panics on NaN, which no call between
\* Scores does; a construction returns the nearest bound for an input outside
\* the range and the input itself inside; the sum and the difference of two
\* Scores are the exact ones clamped; and a division by zero returns MIN.
C15_ScoreStaysInRange ==
    calc.done =>
        /\ ~is_nan(calc.result) => calc.result \in Scores
        /\ calc.op \in {"new", "from", "set"} =>
                calc.result = (IF is_nan(calc.b) THEN NAN
                               ELSE IF calc.b < Score_MIN THEN Score_MIN
                               ELSE IF calc.b > Score_MAX THEN Score_MAX
                               ELSE calc.b)
        /\ calc.op \in {"add", "sub", "mul", "div", "sum", "product"} =>
                ~is_nan(calc.result)
        /\ calc.op = "add" =>
                calc.result = (IF calc.a + calc.b > Score_MAX THEN Score_MAX
                               ELSE calc.a + calc.b)
        /\ calc.op = "sub" =>
                calc.result = (IF calc.a - calc.b < Score_MIN THEN Score_MIN
                               ELSE calc.a - calc.b)
        /\ calc.op \in {"mul", "div"} /\ calc.b = Score_MAX => calc.result = calc.a
        /\ (calc.op \in {"div", "div_f32"} /\ calc.b = 0) => calc.result = Score_MIN

\* Score::MAX was divided by Score::MIN and the call returned Score::MIN.
C15_Witness ==
    /\ calc.done
    /\ calc.op = "div"
    /\ calc.a = Score_MAX
    /\ calc.b = Score_MIN
    /\ calc.result = Score_MIN

----------------------------------------------------------------------------
(* C16..C20: the aggregators, checked under SpecScore *)

\* The call is of aggregator `node`, not wrapped, and has returned.
Aggregated(node) == calc.done /\ calc.op = "aggregate" /\ calc.self.node = node

\* C16: the product aggregator called with no children scores returns
\* Score::MIN.
C16_ProductOfNoneIsMin ==
    (Aggregated("product") /\ calc.scores = <<>>) => calc.result = Score_MIN

\* C17: sum, maximum, minimum, average, geometric_mean, harmonic_mean and
\* median called with no children scores return Score::MIN, whatever the
\* threshold.
C17_EmptyInputIsMin ==
    \A node \in {"sum", "maximum", "minimum", "average", "geometric_mean",
                  "harmonic_mean", "median", "mean::geometric_mean",
                  "mean::harmonic_mean"} :
        (Aggregated(node) /\ calc.scores = <<>>) => calc.result = Score_MIN

\* maximum(Score::MAX) was called with no children scores and returned.
C17_Witness ==
    /\ Aggregated("maximum")
    /\ calc.self.threshold = Score_MAX
    /\ calc.scores = <<>>
    /\ calc.result = Score_MIN

\* What the wrapped aggregator of the call returns on the children scores of
\* the call.
WrappedOutput == Aggregator_aggregate(calc.self.aggregator, calc.scores).score

\* C18: A.threshold(t) returns Score::MIN when the output of A is below t and
\* the output of A itself when it is t or more, for an aggregator A on any
\* children scores and for an evaluator A.
C18_ThresholdCutsBelow ==
    /\ Aggregated("threshold") =>
            /\ calc.passed[2] = calc.scores
            /\ calc.result = (IF WrappedOutput < calc.self.threshold THEN Score_MIN
                              ELSE WrappedOutput)
    /\ (calc.done /\ calc.op = "evaluate") =>
            LET score == Evaluator_evaluate(calc.self.evaluator, components, PLACEHOLDER)
            IN  calc.result = (IF score < calc.self.threshold THEN Score_MIN
                               ELSE score)

\* An aggregator whose output equals the threshold, above Score::MIN, was
\* called through threshold(t) and its output came back.
C18_Witness ==
    /\ Aggregated("threshold")
    /\ calc.self.threshold > Score_MIN
    /\ WrappedOutput = calc.self.threshold
    /\ calc.result = calc.self.threshold

\* C19 as stated: A.input_threshold(t) returns Score::MIN exactly when some
\* child score is below t, and what A returns otherwise.
C19_MinIffChildBelow ==
    Aggregated("input_threshold") =>
        /\ calc.result = Score_MIN <=> any_below(calc.scores, calc.self.threshold)
        /\ ~any_below(calc.scores, calc.self.threshold) => calc.result = WrappedOutput

\* C19: A.input_threshold(t) returns Score::MIN without calling A when some
\* child score is below t; otherwise it calls A on the same children scores
\* and returns what A returns, Score::MIN included.
C19_MinIfChildBelow ==
    Aggregated("input_threshold") =>
        IF any_below(calc.scores, calc.self.threshold)
        THEN calc.result = Score_MIN /\ calc.passed = <<calc.scores>>
        ELSE calc.result = WrappedOutput /\ calc.passed = <<calc.scores, calc.scores>>

\* A child score below the threshold made input_threshold(t) return
\* Score::MIN although the wrapped aggregator returns more on these scores.
C19_Witness ==
    /\ Aggregated("input_threshold")
    /\ any_below(calc.scores, calc.self.threshold)
    /\ WrappedOutput > Score_MIN
    /\ calc.result = Score_MIN

----------------------------------------------------------------------------
(* C21, C22: difference and map, checked under SpecCombinators *)

C22_MapperInitializedWithNode ==
    \A n \in Nodes(flow.graph) :
        LET obj == NodeAt(flow.graph, n)
        IN  obj.mapper =>
                /\ obj.inits > 0 => obj.mapper_inits > 0
                /\ ~obj.mapped_early

----------------------------------------------------------------------------
(* C23, C24: registered nodes and the uninitialized queue, checked under Spec *)

\* C23: add_nodes, initialize, run and run_readonly remove no registered
\* node, and leave every registered node with its id and what it computes,
\* its parent or none, its children in their order, and its label or none.
C23_RegisteredNodesAreFixed ==
    [][ \A n \in Nodes(flow.graph) :
            /\ n \in Nodes(flow'.graph)
            /\ RegPos(flow'.graph, n) = RegPos(flow.graph, n)
            /\ NodeAt(flow'.graph, n).node = NodeAt(flow.graph, n).node
            /\ NodeAt(flow'.graph, n).param = NodeAt(flow.graph, n).param
            /\ {p \in Nodes(flow'.graph) : n \in ChildrenOf(flow'.graph, p)}
                    = {p \in Nodes(flow.graph) : n \in ChildrenOf(flow.graph, p)}
            /\ SortByRegPos(flow'.graph, ChildrenOf(flow'.graph, n))
                    = SortByRegPos(flow.graph, ChildrenOf(flow.graph, n))
            /\ {l \in DOMAIN flow'.graph.labels : flow'.graph.labels[l] = n}
                    = {l \in DOMAIN flow.graph.labels : flow.graph.labels[l] = n}
            /\ (n \in DOMAIN flow'.graph.labeled) = (n \in DOMAIN flow.graph.labeled)
            /\ n \in DOMAIN flow.graph.labeled =>
                    flow'.graph.labeled[n] = flow.graph.labeled[n]
      ]_vars

\* add_nodes has registered a node in a flow that held an evaluated, labelled
\* aggregator with a child.
C23_Witness ==
    /\ outcome.op = "add_nodes"
    /\ flow.graph.uninitialized # <<>>
    /\ \E n \in Nodes(flow.graph) :
            /\ NodeAt(flow.graph, n).evaluated
            /\ n \in DOMAIN flow.graph.labeled
            /\ ChildrenOf(flow.graph, n) # {}

\* C24: add_nodes appends the nodes it registers to the uninitialized queue,
\* also in a flow that was initialized; while the queue is not empty
\* run_readonly panics and leaves the flow as it is; initialize and run empty
\* the queue and call initialize once on each queued node and on no other
\* node, and run then returns.
C24_AddNodesQueuesOnlyNewNodes ==
    [][ /\ outcome'.op = "add_nodes" =>
            /\ SubSeq(flow'.graph.uninitialized, 1, Len(flow.graph.uninitialized))
                    = flow.graph.uninitialized
            /\ Range(flow'.graph.uninitialized)
                    = Range(flow.graph.uninitialized)
                        \cup (Nodes(flow'.graph) \ Nodes(flow.graph))
        /\ (outcome'.op = "run_readonly" /\ flow.graph.uninitialized # <<>>) =>
            /\ outcome'.panic = "flow was not initialized before running"
            /\ flow' = flow
        /\ outcome'.op \in {"initialize", "run"} =>
            /\ flow'.graph.uninitialized = <<>>
            /\ outcome'.panic = "none"
            /\ \A n \in Nodes(flow.graph) :
                    NodeAt(flow'.graph, n).inits =
                        IF n \in Range(flow.graph.uninitialized)
                        THEN NodeAt(flow.graph, n).inits + 1
                        ELSE NodeAt(flow.graph, n).inits
        /\ outcome'.op = "run" =>
            DOMAIN outcome'.produced = Nodes(flow.graph)
      ]_vars

\* add_nodes has registered a node in a flow whose other nodes had been
\* initialized by a run.
C24_Witness ==
    /\ outcome.op = "add_nodes"
    /\ Len(flow.graph.uninitialized) = 1
    /\ \E n \in Nodes(flow.graph) :
            NodeAt(flow.graph, n).inits = 1 /\ NodeAt(flow.graph, n).evaluated
    /\ \A n \in Range(flow.graph.uninitialized) : NodeAt(flow.graph, n).inits = 0

----------------------------------------------------------------------------
(* C25: the end of a scoped call, checked under SpecWorld *)

\* C25: once a scoped call that pulled a flow out of the registry has ended,
\* by the return of its callback or by a panic inside it, the registry holds
\* a flow under the label of the call.
C25_ScopedFlowAlwaysReturned ==
    (scopes = <<>> /\ outcome.label \in FlowLabels /\ outcome.error = "Ok") =>
        Registered(flows, outcome.label)

----------------------------------------------------------------------------
(* C26: the phases of run_all_entity_flows, checked under SpecBatch *)

\* C26: once the parallel loop of run_all_entity_flows has started, every
\* flow assigned to an entity and held by the registry is initialized, and no
\* run of the loop panics; and until the parallel loop has run or skipped
\* every entity, each entity has the ComputedScores it had when the driver
\* started.
C26_InitializedBeforeSweepWrittenAfter ==
    driver.op = "run_all_entity_flows" =>
        /\ outcome.panic = "none"
        /\ driver.phase \in {"parallel", "write_back"} =>
                \A e \in DOMAIN components :
                    Registered(flows, components[e].flow) =>
                        is_initialized(flows.inner[components[e].flow].graph)
        /\ driver.phase # "done" =>
                \A e \in DOMAIN components : components[e].scores = driver.before[e]
        /\ driver.phase \in {"write_back", "done"} =>
                /\ driver.parallel = {}
                /\ driver.ran \cup driver.failed = DOMAIN components
        /\ driver.phase = "done" =>
                \A e \in DOMAIN components :
                    components[e].scores # driver.before[e] => e \in driver.ran

\* The parallel loop has run the flow of one entity and skipped the other,
\* whose flow the registry does not hold, and the scores of the first have
\* been written.
C26_Witness ==
    /\ driver.op = "run_all_entity_flows"
    /\ driver.phase = "done"
    /\ driver.ran # {}
    /\ driver.failed # {}
    /\ \E e \in driver.ran :
            /\ components[e].scores # driver.before[e]
            /\ DOMAIN components[e].scores # {}

----------------------------------------------------------------------------
(* C27: the children-score buffers of one call, checked under SpecParallel *)

\* C27: in every call of run_readonly, between any two iterations of its
\* loop: the call has not panicked; an aggregator that has been evaluated has
\* no buffer, and was evaluated once; the buffer of an aggregator holds, in
\* order, the scores produced by those of its children that have been
\* evaluated, and nothing else; and no buffer is left when the call returns.
C27_BuffersAreSingleUse ==
    \A target \in DOMAIN jobs.runs :
        LET st == jobs.runs[target].st
            cell == jobs.cells[buffer_of(target)]
            buffers == cell.aggregator_child_scores
        IN  /\ st.panic = "none"
            /\ DOMAIN buffers \cap Range(st.order) = {}
            /\ \A i, j \in 1..Len(st.order) : st.order[i] = st.order[j] => i = j
            /\ \A a \in Range(st.order) :
                    a[1] = "Aggregator" =>
                        /\ a \in DOMAIN st.received
                        /\ Range(st.received[a].sources) = ChildrenOf(flow.graph, a)
            /\ \A a \in DOMAIN buffers :
                    LET sources == cell.child_sources[a]
                    IN  /\ a[1] = "Aggregator"
                        /\ Len(buffers[a]) = Len(sources)
                        /\ Range(sources) = ChildrenOf(flow.graph, a) \cap Range(st.order)
                        /\ \A k \in 1..Len(sources) :
                                buffers[a][k] = st.produced[sources[k]]
            /\ JobReturned(target) => buffers = EmptyMap

\* A call is between two iterations: one aggregator has been evaluated and
\* its buffer is gone, and the buffer of its parent holds its score.
C27_Witness ==
    \E target \in DOMAIN jobs.runs :
        LET st == jobs.runs[target].st
            buffers == jobs.cells[buffer_of(target)].aggregator_child_scores
        IN  /\ ~JobReturned(target)
            /\ \E a \in Range(st.order) :
                    /\ a[1] = "Aggregator"
                    /\ a \notin DOMAIN buffers
                    /\ \E b \in DOMAIN buffers : buffers[b] = <<st.produced[a]>>

----------------------------------------------------------------------------
(* C28, C29: the dependency graph and its cached order, checked under        *)
(* SpecOrder                                                                 *)

\* C28: the dependency graph holds exactly the registered nodes and is an
\* acyclic forest: every non-empty set of nodes has a node with no edge into
\* the set, every node has at most one outgoing edge, and every edge leads
\* to an aggregator that was registered before the edge's source.
C28_DependencyIsForest ==
    LET E == Edges(flow.graph.dependency)
    IN  /\ DOMAIN flow.graph.dependency.adj = Nodes(flow.graph)
        /\ Range(flow.graph.dependency.nodes) = Nodes(flow.graph)
        /\ \A S \in SUBSET Nodes(flow.graph) :
                S # {} => \E n \in S : \A m \in S : <<n, m>> \notin E
        /\ \A n \in Nodes(flow.graph) : Cardinality({e \in E : e[1] = n}) <= 1
        /\ \A e \in E :
                /\ e[2][1] = "Aggregator"
                /\ RegPos(flow.graph, e[2]) < RegPos(flow.graph, e[1])

\* The flow holds two trees, one of them with a node under a node under a
\* node, built by more than one add_nodes.
C28_Witness ==
    LET E == Edges(flow.graph.dependency)
    IN  /\ \E a, b, c \in Nodes(flow.graph) : <<a, b>> \in E /\ <<b, c>> \in E
        /\ Cardinality({n \in Nodes(flow.graph) : \A m \in Nodes(flow.graph) :
                            <<n, m>> \notin E}) >= 2
        /\ \E n, m \in Nodes(flow.graph) :
                NodeAt(flow.graph, n).inits # NodeAt(flow.graph, m).inits

\* C29: the cached topological order holds every registered node exactly
\* once and nothing else, and a run that returned has evaluated the nodes of
\* the order, each once.
C29_OrderIsPermutation ==
    /\ Range(flow.graph.dependency_toposort) = Nodes(flow.graph)
    /\ Len(flow.graph.dependency_toposort) = Cardinality(Nodes(flow.graph))
    /\ RunReturned =>
            /\ outcome.order = flow.graph.dependency_toposort
            /\ DOMAIN outcome.produced = Nodes(flow.graph)

\* A run returned on a flow of as many nodes as the bound allows, in more
\* than one tree, whose order is not the registration order.
C29_Witness ==
    /\ RunReturned
    /\ Len(outcome.order) = MaxOrderNodes
    /\ outcome.order # flow.graph.dependency.nodes
    /\ \E n \in Nodes(flow.graph) :
            /\ RegPos(flow.graph, n) > 1
            /\ \A m \in Nodes(flow.graph) : <<n, m>> \notin Edges(flow.graph.dependency)

----------------------------------------------------------------------------
(* C30: a skipped aggregator config and its descendants, checked under       *)
(* SpecCombinators, where the label L2 is carried only by descendants of     *)
(* unlabelled top-level aggregator configs                                   *)

\* C30: an add_nodes that skips an unlabelled top-level aggregator config
\* registers the labelled top-level configs and nothing else, so no node of
\* the skipped config's subtree enters the flow and no label of the subtree
\* is bound; and no run returns a score under such a label.
C30_SkippedSubtreeIsDropped ==
    [][ /\ (outcome'.op = "add_nodes" /\ outcome'.skipped > 0) =>
                /\ NodeCount(flow') = NodeCount(flow) + ConfigSize(outcome'.kept)
                /\ flow'.graph.aggregators = flow.graph.aggregators
                /\ flow' = add_nodes(flow, outcome'.kept)
        /\ Carrying(flow'.graph, "L2") = {}
        /\ "L2" \notin DOMAIN flow'.graph.labels
        /\ outcome'.op \in {"run", "run_readonly"} =>
                "L2" \notin DOMAIN outcome'.labeled_scores
      ]_vars

\* add_nodes has skipped an unlabelled aggregator config with a descendant
\* labelled L2 and registered the constant labelled L1 given with it, in a
\* flow that held a node.
C30_Witness ==
    /\ outcome.op = "add_nodes"
    /\ outcome.skipped > 0
    /\ outcome.kept # <<>>
    /\ NodeCount(flow) = 2
    /\ "L1" \in DOMAIN flow.graph.labels

====
